---- MODULE Spec2Model ----
(***************************************************************************)
(* crocoite: a model of the grab engine.                                   *)
(*                                                                         *)
(*   Spec     SiteLoader (browser.py): Chrome network events are folded    *)
(*            into Item pairs and handed to the loadingFinished /          *)
(*            loadingFailed callbacks.                                     *)
(*   SpecTab  Tab (devtools.py): callers of Tab.__call__ and Tab.get, the  *)
(*            receive task _recvProcess and the websocket between them.    *)
(*   SpecTabFair  SpecTab with the event loop running every ready task.    *)
(*   SpecCtl  SinglePageController.run (controller.py): the configuration, *)
(*            the loop around asyncio.wait, STOPPING and FINISHING, with   *)
(*            the drain task, the idle task and the timeout task.          *)
(*   SpecCtlFair  SpecCtl with calls answered, tasks run and time passing. *)
(*   SpecProc  run from its call on: Process.__aenter__ (devtools.py)      *)
(*            starting Chrome and reading its port, the body of the async  *)
(*            with as in SpecCtl, and the exit of the context managers.    *)
(*   SpecIdle  IdleStateTracker.wait (controller.py) on a clock counting   *)
(*            scheduling ticks, for a page that becomes idle at time 0.    *)
(*   SpecIdleFair  SpecIdle with the coroutine resumed and time passing.   *)
(*   SpecHooks  processItem, the push of each handler, _runon and the      *)
(*            hooks of the behaviors (controller.py, behavior.py), step by *)
(*            step, for the drain task and the task of run.                *)
(*   SpecDialog  SiteLoader._javascriptDialogOpening (browser.py): the     *)
(*            page opens dialogs, the callback answers them.               *)
(*   SpecDialogFair  SpecDialog with events delivered and calls handled.   *)
(*   SpecWarc  WarcHandler (warc.py): items are pushed and log lines       *)
(*            written in any order, until the handler is left.             *)
(*   SpecShot  Screenshot.onfinish (behavior.py): the page is captured in  *)
(*            bands of at most maxDim pixels.                              *)
(*   SpecDom  DomSnapshot.onfinish (behavior.py) with                      *)
(*            ChromeTreeWalker.split (html.py): one snapshot per document  *)
(*            of the DOM tree.                                             *)
(*   SpecRef  RefCountEvent (irc.py): holders enter and leave the context  *)
(*            manager, the event is armed.                                 *)
(*   SpecStrip  StripTagFilter (html.py): the tokens of a tree walker are  *)
(*            filtered one by one.                                         *)
(*   SpecRec  RecursiveController.run and fetch (controller.py): the loop  *)
(*            over pending starts fetch tasks, which report links.         *)
(*   SpecBot  Chromebot.handleArchive and handleAbort (irc.py): jobs wait  *)
(*            for the process limit, run their command and are aborted.    *)
(***************************************************************************)
EXTENDS Integers, Sequences, FiniteSets, TLC

\* Python's None, among the records it stands in for
None == [none |-> TRUE]

(***************************************************************************)
(* Bounds of the model                                                     *)
(***************************************************************************)
\* network events the browser sends in one run
MaxEvents == 6

\* request ids the browser hands out
ReqIds == {1, 2}

\* frames the browser sends that answer no call
MaxFrames == 1

\* dialogs the page opens in one run
MaxDialogs == 3

\* calls of WarcHandler.push and WarcHandler._writeLog in one run
MaxCalls == 3

\* operations on one RefCountEvent
MaxOps == 5

\* tokens of one token stream
MaxTokens == 4

\* the jobs of the bot
Jobs == {1, 2}

\* the depth up to which links are followed: DepthLimit (MaxDepth)
MaxDepth == 2

\* lines with links that one fetch reads from its command
MaxLines == 1

\* the URLs of the documents of a page
DocumentUrls == {"http://a/", "http://a/#x", "https://b/", "about:blank"}

\* heights, in pixels, the browser reports for a page
Heights == {1, 2, 1080, 16383, 16384, 16385, 32767, 32768, 32769, 40960}

\* the calls made on the tab, in the order they start; each is its own task
Callers == {1, 2}

\* items the collector yields in one run
MaxItems == 3

\* the longest timeout IdleStateTracker.wait is called with, in scheduling
\* ticks
MaxWait == 5

\* URLs the browser may request; urlsplit gives the scheme
Urls == {"http://a/", "https://b/", "ftp://c/"}

VARIABLES
    \* ---- SiteLoader (browser.py) ----
    requests,       \* SiteLoader.requests: reqId -> Item, None when absent
    nextSerial,     \* identity of the next Item object to be constructed
    emitted,        \* calls of the overrideable callbacks, in order
    raised,         \* exception the last network callback ended with
    nEvents,        \* number of network events handled
    \* ---- the browser that sends the events ----
    chrome,         \* per request id: where the browser is with it
    chromeUrl,      \* per request id: URL of the request being loaded
    redirects,      \* per request id: requestWillBeSent events with a redirectResponse
    onlyHttp,       \* per request id: every URL announced for it was http(s)
    sentHttp,       \* per request id: a request with an http(s) URL was
                    \* announced and the id has not finished or failed since
    \* ---- Tab (devtools.py) ----
    msgid,          \* Tab.msgid
    crashed,        \* Tab.crashed
    transactions,   \* Tab.transactions: msgid -> [event, result]
    queue,          \* Tab.queue
    recvHandle,     \* Tab._recvHandle: "running" or "done"
    callers,        \* per caller: where it is in Tab.__call__ and how it ended
    getter,         \* the task calling Tab.get
    \* ---- the websocket and the browser behind it ----
    wsOpen,         \* the connection is up
    wire,           \* ids of the messages written to the connection
    answered,       \* ids of the messages the browser has answered
    nFrames,        \* frames read that answer no call
    issued,         \* message ids handed out, in order
    \* ---- remembered for the claims ----
    callHist,       \* per call: the reply read for it, where it was at a crash
    getHist,        \* the get under way: where it was at a crash
    \* ---- SinglePageController.run (controller.py) ----
    ctlPc,          \* the await run is at, "returned" or "raised" at its end
    exitBy,         \* the branch run left its loop through, or what it raised
    did,            \* the phases run went through after its loop
    timeoutProc,    \* the task asyncio.sleep (timeout)
    idleProc,       \* the task idle.wait (...)
    handle,         \* the task processQueue: running, failed or cancelled
    tracker,        \* IdleStateTracker: _idle and the time since _idleSince
    firstPushed,    \* per handler: the first item pushed to it
    loaded,         \* InjectBehaviorOnload._loaded
    framesLoading,  \* the collector: a frame is loading
    ctlTimer,       \* the sleep or the wait_for timeout run is waiting for
    afterEnd,       \* kinds of the items pushed after run has raised
    idleDelivered,  \* a PageIdle was pushed to the tracker since run called
                    \* l.navigate
    \* ---- Process (devtools.py) and the async with of run ----
    procPc,         \* where the context managers of run are
    child,          \* the Chrome child process
    tries,          \* reads of DevToolsActivePort that found no file
    portFile,       \* Chrome has written DevToolsActivePort
    \* ---- IdleStateTracker.wait on the clock (controller.py) ----
    clock,          \* scheduling ticks since the page became idle
    idleAt0,        \* the PageIdle (true) of time 0 has been pushed
    late,           \* the sleep of wait is over since one tick
    retAt,          \* the clock when wait returned, -1 before
    \* ---- the handler chain and the hooks (controller.py, behavior.py) ----
    stack,          \* per task: the calls it is in, the innermost last
    running,        \* the task the event loop runs, "none" between two
    hlog,           \* per task: its pushes, hooks and calls, in order
    nItems,         \* items the collector has yielded
    \* ---- javascript dialogs (browser.py) ----
    dlgOpen,        \* type of the dialog the page shows, "" when none
    dlgEvent,       \* the Page.javascriptDialogOpening not yet delivered
    pageCalls,      \* Page.handleJavaScriptDialog calls the browser has not read
    logged,         \* levels of the records the callback has logged
    dlgHist,        \* per dialog opened: its type and what it was answered
    \* ---- WarcHandler (warc.py) ----
    warc,           \* the handler: the records written, log, documentRecords,
                    \* warcinfoRecordId, and the Item.body reads it has made
    warcConnected,  \* a WarcHandlerConsumer feeds the logger's lines to it
    warcExited,     \* WarcHandler.__exit__ has run
    warcCalls,      \* the calls made so far, with the records each wrote
    \* ---- Screenshot.onfinish (behavior.py) ----
    shotPc,         \* the await or yield onfinish is at
    shotResult,     \* result: the heights screenshot.js returned
    contentHeight,  \* contentHeight, -1 before it is computed
    yoff,           \* the loop variable
    shotOut,        \* what onfinish has yielded
    \* ---- DomSnapshot.onfinish (behavior.py) ----
    domPc,          \* the await or yield onfinish is at
    dom,            \* dom['root'] as DOM.getDocument returned it
    domDocs,        \* the documents split () has yet to produce
    haveUrls,       \* haveUrls
    domOut,         \* what onfinish has yielded
    \* ---- RefCountEvent (irc.py) ----
    count,          \* RefCountEvent.count
    armed,          \* RefCountEvent.armed
    event,          \* RefCountEvent.event: the asyncio.Event is set
    refOps,         \* the operations made so far
    \* ---- StripTagFilter (html.py) ----
    stripPc,        \* "new", "iter": the filter is made, is iterated
    tags,           \* StripTagFilter.tags
    tokens,         \* the tokens the source has yielded so far
    open,           \* the elements of the source that are open, innermost last
    delete,         \* the local variable delete of __iter__
    yielded,        \* the tokens the filter has yielded so far
    \* ---- RecursiveController (controller.py) ----
    recPc,          \* where run is: "new", "loop", "wait", "finally", "returned"
    concurrency,    \* RecursiveController.concurrency
    have,           \* RecursiveController.have
    pending,        \* RecursiveController.pending
    fetching,       \* RecursiveController.running: the seqnum of each task
    fetches,        \* the fetch tasks made so far, by seqnum
    \* ---- Chromebot (irc.py) ----
    jobPc,          \* per job: where its handleArchive is
    status,         \* per job: Job.status
    process,        \* per job: Job.process: "None", or the state of the child
    terminated,     \* per job: process.terminate () was called
    semaphore       \* the value of Chromebot.processLimit

loaderVars == <<requests, nextSerial, emitted, raised, nEvents,
                chrome, chromeUrl, redirects, onlyHttp, sentHttp>>

tabVars == <<msgid, crashed, transactions, queue, recvHandle, callers, getter,
             wsOpen, wire, answered, nFrames, issued, callHist, getHist>>

ctlVars == <<ctlPc, exitBy, did, timeoutProc, idleProc, handle, tracker,
             firstPushed, loaded, framesLoading, ctlTimer>>

procVars == <<procPc, child, tries, portFile>>

clockVars == <<clock, idleAt0, late, retAt>>

hookVars == <<stack, running, hlog, nItems>>

dialogVars == <<dlgOpen, dlgEvent, pageCalls, logged, dlgHist>>

\* the parts that model one class each, next to the grab
warcVars == <<warc, warcConnected, warcExited, warcCalls>>

shotVars == <<shotPc, shotResult, contentHeight, yoff, shotOut>>

domVars == <<domPc, dom, domDocs, haveUrls, domOut>>

refVars == <<count, armed, event, refOps>>

stripVars == <<stripPc, tags, tokens, open, delete, yielded>>
recVars == <<recPc, concurrency, have, pending, fetching, fetches>>
botVars == <<jobPc, status, process, terminated, semaphore>>

extVars == <<dialogVars, warcVars, shotVars, domVars, refVars, stripVars,
             recVars, botVars>>

grabVars == <<loaderVars, tabVars, ctlVars, afterEnd, idleDelivered,
              procVars, clockVars, hookVars>>

vars == <<grabVars, extVars>>

\* what the actions of one part leave alone
notLoaderVars == <<tabVars, ctlVars, afterEnd, idleDelivered, procVars,
                   clockVars, hookVars, extVars>>
notTabVars == <<loaderVars, ctlVars, afterEnd, idleDelivered, procVars,
                clockVars, hookVars, extVars>>
notDrainVars == <<loaderVars, tabVars, procVars, clockVars, hookVars, extVars>>
notCtlVars == <<notDrainVars, afterEnd, idleDelivered>>
notProcVars == <<loaderVars, tabVars, afterEnd, idleDelivered, clockVars,
                 hookVars, extVars>>
notClockVars == <<loaderVars, tabVars, afterEnd, idleDelivered, procVars,
                  hookVars, extVars>>
notHookVars == <<loaderVars, tabVars, afterEnd, idleDelivered, procVars,
                 clockVars, exitBy, did, timeoutProc, idleProc, firstPushed, framesLoading,
                 ctlTimer, extVars>>
notDialogVars == <<grabVars, warcVars, shotVars, domVars, refVars, stripVars,
                   recVars, botVars>>
notWarcVars == <<grabVars, dialogVars, shotVars, domVars, refVars, stripVars,
                 recVars, botVars>>
notShotVars == <<grabVars, dialogVars, warcVars, domVars, refVars, stripVars,
                 recVars, botVars>>
notDomVars == <<grabVars, dialogVars, warcVars, shotVars, refVars, stripVars,
                recVars, botVars>>
notRefVars == <<grabVars, dialogVars, warcVars, shotVars, domVars, stripVars,
                recVars, botVars>>
notStripVars == <<grabVars, dialogVars, warcVars, shotVars, domVars, refVars,
                  recVars, botVars>>
notRecVars == <<grabVars, dialogVars, warcVars, shotVars, domVars, refVars,
                stripVars, botVars>>
notBotVars == <<grabVars, dialogVars, warcVars, shotVars, domVars, refVars,
                stripVars, recVars>>

(***************************************************************************)
(* browser.py                                                              *)
(***************************************************************************)
\* urllib.parse.urlsplit, as far as the loader reads its result
urlsplit(url) ==
    [scheme |-> CASE url = "http://a/" -> "http"
                  [] url = "https://b/" -> "https"
                  [] OTHER -> "ftp"]

allowedSchemes == {"http", "https"}

\* Item.__init__ followed by Item.setRequest
Item(serial, req) ==
    [serial |-> serial, chromeRequest |-> req,
     chromeResponse |-> None, chromeFinished |-> None]

setResponse(item, resp) == [item EXCEPT !.chromeResponse = resp]

setFinished(item, finished) == [item EXCEPT !.chromeFinished = finished]

\* SiteLoader.loadingFinished, as the adapters override it: the call is recorded
loadingFinished(em, item, redirect, kwargs) ==
    Append(em, [callback |-> "loadingFinished", item |-> item,
                redirect |-> redirect,
                method |-> kwargs.method, requestId |-> kwargs.requestId])

\* SiteLoader.loadingFailed, likewise
loadingFailed(em, item, kwargs) ==
    Append(em, [callback |-> "loadingFailed", item |-> item,
                redirect |-> FALSE,
                method |-> kwargs.method, requestId |-> kwargs.requestId])

\* a requestWillBeSent that puts the new request into the existing Item
\* object instead of constructing a new one
ReuseItem_requestWillBeSent(kwargs) ==
    LET reqId == kwargs.requestId
        url == urlsplit(kwargs.request.url)
        item == requests[reqId]
        folded == setFinished(
                    setResponse(item, [requestId |-> reqId,
                                       response |-> kwargs.redirectResponse]),
                    [requestId |-> reqId, encodedDataLength |-> 0])
    IN  IF url.scheme \notin allowedSchemes
        THEN UNCHANGED <<requests, nextSerial, emitted>>
        ELSE /\ emitted' = IF item # None /\ kwargs.redirectResponse # None
                           THEN loadingFinished(emitted, folded, TRUE, kwargs)
                           ELSE emitted
             /\ requests' = [requests EXCEPT ![reqId] =
                    IF item # None
                    THEN [item EXCEPT !.chromeRequest =
                            [requestId |-> reqId, request |-> kwargs.request]]
                    ELSE Item(nextSerial,
                            [requestId |-> reqId, request |-> kwargs.request])]
             /\ nextSerial' = nextSerial + 1

\* a requestWillBeSent that hands the pair over without the redirect response
NoFold_requestWillBeSent(kwargs) ==
    LET reqId == kwargs.requestId
        url == urlsplit(kwargs.request.url)
        item == requests[reqId]
    IN  IF url.scheme \notin allowedSchemes
        THEN UNCHANGED <<requests, nextSerial, emitted>>
        ELSE /\ emitted' = IF item # None /\ kwargs.redirectResponse # None
                           THEN loadingFinished(emitted, item, TRUE, kwargs)
                           ELSE emitted
             /\ requests' = [requests EXCEPT ![reqId] =
                    Item(nextSerial,
                         [requestId |-> reqId, request |-> kwargs.request])]
             /\ nextSerial' = nextSerial + 1

\* a requestWillBeSent that records the request whatever its scheme
AnyScheme_requestWillBeSent(kwargs) ==
    LET reqId == kwargs.requestId
        item == requests[reqId]
        folded == setFinished(
                    setResponse(item, [requestId |-> reqId,
                                       response |-> kwargs.redirectResponse]),
                    [requestId |-> reqId, encodedDataLength |-> 0])
    IN  /\ emitted' = IF item # None /\ kwargs.redirectResponse # None
                      THEN loadingFinished(emitted, folded, TRUE, kwargs)
                      ELSE emitted
        /\ requests' = [requests EXCEPT ![reqId] =
               Item(nextSerial,
                    [requestId |-> reqId, request |-> kwargs.request])]
        /\ nextSerial' = nextSerial + 1

\* SiteLoader._requestWillBeSent
requestWillBeSent(kwargs) ==
    LET reqId == kwargs.requestId
        url == urlsplit(kwargs.request.url)
        item == requests[reqId]
        \* the fake response and the fake finish built from the redirect
        folded == setFinished(
                    setResponse(item, [requestId |-> reqId,
                                       response |-> kwargs.redirectResponse]),
                    [requestId |-> reqId, encodedDataLength |-> 0])
    IN  IF url.scheme \notin allowedSchemes
        THEN UNCHANGED <<requests, nextSerial, emitted>>
        ELSE /\ emitted' = IF item # None /\ kwargs.redirectResponse # None
                           THEN loadingFinished(emitted, folded, TRUE, kwargs)
                           ELSE emitted
             /\ requests' = [requests EXCEPT ![reqId] =
                    Item(nextSerial,
                         [requestId |-> reqId, request |-> kwargs.request])]
             /\ nextSerial' = nextSerial + 1

\* SiteLoader._responseReceived
responseReceived(kwargs) ==
    LET reqId == kwargs.requestId
        item == requests[reqId]
        url == urlsplit(kwargs.response.url)
    IN  /\ requests' = IF item # None /\ url.scheme \in allowedSchemes
                       THEN [requests EXCEPT ![reqId] =
                                setResponse(item, [requestId |-> reqId,
                                                   response |-> kwargs.response])]
                       ELSE requests
        /\ UNCHANGED <<nextSerial, emitted>>

\* SiteLoader._loadingFinished: the exception it ends with
loadingFinishedRaises(item) ==
    IF item = None THEN "none"
    ELSE IF item.chromeResponse = None THEN "TypeError"
    ELSE IF item.chromeRequest.request.url # item.chromeResponse.response.url
         THEN "AssertionError"
    ELSE "none"

\* SiteLoader._loadingFinished
loadingFinishedEvent(kwargs) ==
    LET reqId == kwargs.requestId
        item == requests[reqId]
    IN  /\ requests' = [requests EXCEPT ![reqId] = None]
        /\ emitted' =
             IF /\ item # None
                /\ loadingFinishedRaises(item) = "none"
                /\ urlsplit(item.chromeResponse.response.url).scheme
                        \in allowedSchemes
             THEN loadingFinished(emitted,
                    setFinished(item, [requestId |-> reqId,
                                       encodedDataLength |-> 1]),
                    FALSE, kwargs)
             ELSE emitted
        /\ raised' = loadingFinishedRaises(item)
        /\ UNCHANGED nextSerial

\* SiteLoader._loadingFailed
loadingFailedEvent(kwargs) ==
    LET reqId == kwargs.requestId
        item == requests[reqId]
    IN  /\ requests' = [requests EXCEPT ![reqId] = None]
        /\ emitted' = loadingFailed(emitted, item, kwargs)
        /\ UNCHANGED nextSerial

(***************************************************************************)
(* The browser: per request id, requestWillBeSent, then further            *)
(* requestWillBeSent events (redirects), then at most one                  *)
(* responseReceived, then loadingFinished or loadingFailed.                *)
(***************************************************************************)
Handled(kwargs) ==
    /\ nEvents < MaxEvents
    /\ nEvents' = nEvents + 1
    /\ UNCHANGED notLoaderVars

NetworkRequestWillBeSent(id, url, redirect) ==
    LET kwargs == [method |-> "Network.requestWillBeSent", requestId |-> id,
                   request |-> [url |-> url],
                   redirectResponse |->
                        IF redirect THEN [url |-> chromeUrl[id], status |-> 301]
                        ELSE None]
    IN  /\ \/ chrome[id] = "idle" /\ ~redirect
           \/ /\ chrome[id] = "requested"
              /\ redirect => urlsplit(chromeUrl[id]).scheme \in allowedSchemes
        /\ requestWillBeSent(kwargs)
        /\ raised' = "none"
        /\ Handled(kwargs)
        /\ chrome' = [chrome EXCEPT ![id] = "requested"]
        /\ chromeUrl' = [chromeUrl EXCEPT ![id] = url]
        /\ redirects' = [redirects EXCEPT ![id] =
                        IF redirect THEN @ + 1 ELSE @]
        /\ onlyHttp' = [onlyHttp EXCEPT ![id] =
                        @ /\ urlsplit(url).scheme \in allowedSchemes]
        /\ sentHttp' = [sentHttp EXCEPT ![id] =
                        @ \/ urlsplit(url).scheme \in allowedSchemes]

NetworkResponseReceived(id, url) ==
    LET kwargs == [method |-> "Network.responseReceived", requestId |-> id,
                   response |-> [url |-> url, status |-> 200]]
    IN  /\ chrome[id] = "requested"
        /\ responseReceived(kwargs)
        /\ raised' = "none"
        /\ Handled(kwargs)
        /\ chrome' = [chrome EXCEPT ![id] = "responded"]
        /\ onlyHttp' = [onlyHttp EXCEPT ![id] =
                        @ /\ urlsplit(url).scheme \in allowedSchemes]
        /\ UNCHANGED <<chromeUrl, redirects, sentHttp>>

NetworkLoadingFinished(id) ==
    LET kwargs == [method |-> "Network.loadingFinished", requestId |-> id]
    IN  /\ chrome[id] \in {"requested", "responded"}
        /\ loadingFinishedEvent(kwargs)
        /\ Handled(kwargs)
        /\ chrome' = [chrome EXCEPT ![id] = "closed"]
        /\ sentHttp' = [sentHttp EXCEPT ![id] = FALSE]
        /\ UNCHANGED <<chromeUrl, redirects, onlyHttp>>

NetworkLoadingFailed(id) ==
    LET kwargs == [method |-> "Network.loadingFailed", requestId |-> id]
    IN  /\ chrome[id] \in {"requested", "responded"}
        /\ loadingFailedEvent(kwargs)
        /\ raised' = "none"
        /\ Handled(kwargs)
        /\ chrome' = [chrome EXCEPT ![id] = "closed"]
        /\ sentHttp' = [sentHttp EXCEPT ![id] = FALSE]
        /\ UNCHANGED <<chromeUrl, redirects, onlyHttp>>

InitLoader ==
    /\ requests = [id \in ReqIds |-> None]
    /\ nextSerial = 1
    /\ emitted = <<>>
    /\ raised = "none"
    /\ nEvents = 0
    /\ chrome = [id \in ReqIds |-> "idle"]
    /\ chromeUrl = [id \in ReqIds |-> ""]
    /\ redirects = [id \in ReqIds |-> 0]
    /\ onlyHttp = [id \in ReqIds |-> TRUE]
    /\ sentHttp = [id \in ReqIds |-> FALSE]

Next ==
    \/ \E id \in ReqIds, url \in Urls, redirect \in BOOLEAN :
            NetworkRequestWillBeSent(id, url, redirect)
    \/ \E id \in ReqIds, url \in Urls : NetworkResponseReceived(id, url)
    \/ \E id \in ReqIds : NetworkLoadingFinished(id)
    \/ \E id \in ReqIds : NetworkLoadingFailed(id)

(***************************************************************************)
(* devtools.py: Tab                                                        *)
(***************************************************************************)
\* errorMap.get (e['code'], TabException)
errorMap(code) ==
    CASE code = -32601 -> "MethodNotFound"
      [] code = -32602 -> "InvalidParameter"
      [] OTHER -> "TabException"

\* what a reply frame leaves in t['result']
ReplyResult(msg) ==
    IF msg.error # 0 THEN errorMap(msg.error) ELSE msg.result

\* results a reply frame may carry, and the error codes
Results == {"r1"}
ErrorCodes == {-32601, -32000}

\* frames: a reply has an id, an event has a method; a frame that is not JSON
ReplyFrame(m, code, result) ==
    [json |-> TRUE, id |-> m, method |-> "", error |-> code, result |-> result]
EventFrame(method) ==
    [json |-> TRUE, id |-> 0, method |-> method, error |-> 0, result |-> ""]
GarbageFrame ==
    [json |-> FALSE, id |-> 0, method |-> "", error |-> 0, result |-> ""]

\* what Tab.queue holds: events, and the Crashed sentinel
QueuedEvent(msg) == [exception |-> "", method |-> msg.method]
QueuedCrashed == [exception |-> "Crashed", method |-> ""]

\* the call is inside Tab.__call__, at one of its two awaits
Outstanding(c) == callers[c].pc \in {"send", "wait"}

\* markCrashed that fails the pending calls and forgets the event queue
NoSentinel_markCrashed ==
    /\ transactions' = [m \in DOMAIN transactions |->
                            [event |-> TRUE, result |-> "Crashed"]]
    /\ crashed' = TRUE
    /\ UNCHANGED queue

\* Tab._recvProcess.markCrashed
markCrashed ==
    /\ transactions' = [m \in DOMAIN transactions |->
                            [event |-> TRUE, result |-> "Crashed"]]
    /\ crashed' = TRUE
    /\ queue' = Append(queue, QueuedCrashed)

\* a reply frame that wakes every pending call
Broadcast_dispatchReply(msg) ==
    /\ transactions' = [m \in DOMAIN transactions |->
                            [event |-> TRUE, result |-> ReplyResult(msg)]]
    /\ UNCHANGED <<crashed, queue>>

\* Tab._recvProcess, a frame with an id
dispatchReply(msg) ==
    /\ transactions' =
         IF msg.id \in DOMAIN transactions
         THEN [transactions EXCEPT ![msg.id] =
                    [event |-> TRUE, result |-> ReplyResult(msg)]]
         ELSE transactions
    /\ UNCHANGED <<crashed, queue>>

\* Tab._recvProcess: one turn of its loop for the frame msg that ws.recv
\* returned
recvProcess(msg) ==
    IF ~msg.json
    THEN \* json.loads raises
         markCrashed /\ recvHandle' = "done"
    ELSE IF msg.id # 0
    THEN dispatchReply(msg) /\ UNCHANGED recvHandle
    ELSE IF msg.method = "Inspector.targetCrashed"
    THEN markCrashed /\ UNCHANGED recvHandle
    ELSE /\ queue' = Append(queue, QueuedEvent(msg))
         /\ UNCHANGED <<transactions, crashed, recvHandle>>

(***************************************************************************)
(* What is remembered about a run, for the claims: it is written by the    *)
(* steps of the environment and read by no action.                         *)
(***************************************************************************)
NoCallHist ==
    [reply |-> "", atCrash |-> FALSE, crashAfterReply |-> FALSE,
     afterCrash |-> FALSE]

\* the receive task detects a crash: who was inside a call, who had its
\* reply already, was the getter blocked on an empty queue
NoteCrash ==
    /\ callHist' = [c \in Callers |->
            [callHist[c] EXCEPT
                !.atCrash = @ \/ Outstanding(c),
                !.crashAfterReply = @ \/ (Outstanding(c)
                                          /\ callHist[c].reply # "")]]
    /\ getHist' = [getHist EXCEPT
            !.atCrash = @ \/ (getter.pc = "blocked" /\ queue = <<>>)]

\* the receive task reads the reply to the message of a call
NoteReply(msg) ==
    /\ callHist' = [c \in Callers |->
            IF Outstanding(c) /\ callers[c].msgid = msg.id
            THEN [callHist[c] EXCEPT !.reply = ReplyResult(msg)]
            ELSE callHist[c]]
    /\ UNCHANGED getHist

(***************************************************************************)
(* Tab.__call__, one task per call                                         *)
(***************************************************************************)
\* Tab.__call__ that allocates the id again after somebody else took it
StaleId_CallStart(c) ==
    /\ callers[c].pc = "idle"
    /\ \A d \in Callers : d < c => callers[d].pc # "idle"
    /\ callHist' = [callHist EXCEPT ![c].afterCrash = crashed]
    /\ IF crashed \/ recvHandle = "done"
       THEN /\ callers' = [callers EXCEPT ![c].pc = "done",
                                          ![c].outcome = "Crashed"]
            /\ UNCHANGED <<msgid, transactions, issued>>
       ELSE LET id == IF msgid > 1 THEN msgid - 1 ELSE msgid
            IN  /\ msgid' = msgid + 1
                /\ transactions' = [m \in DOMAIN transactions \cup {id} |->
                        IF m = id THEN [event |-> FALSE, result |-> "None"]
                        ELSE transactions[m]]
                /\ issued' = Append(issued, id)
                /\ callers' = [callers EXCEPT ![c].pc = "send",
                                              ![c].msgid = id]
    /\ UNCHANGED <<crashed, queue, recvHandle, getter, wsOpen, wire,
                   answered, nFrames, getHist, notTabVars>>

\* Tab.__call__ up to its first await: the check, the id, the transaction
CallStart(c) ==
    /\ callers[c].pc = "idle"
    /\ \A d \in Callers : d < c => callers[d].pc # "idle"
    /\ callHist' = [callHist EXCEPT ![c].afterCrash = crashed]
    /\ IF crashed \/ recvHandle = "done"
       THEN /\ callers' = [callers EXCEPT ![c].pc = "done",
                                          ![c].outcome = "Crashed"]
            /\ UNCHANGED <<msgid, transactions, issued>>
       ELSE /\ msgid' = msgid + 1
            /\ transactions' = [m \in DOMAIN transactions \cup {msgid} |->
                    IF m = msgid THEN [event |-> FALSE, result |-> "None"]
                    ELSE transactions[m]]
            /\ issued' = Append(issued, msgid)
            /\ callers' = [callers EXCEPT ![c].pc = "send",
                                          ![c].msgid = msgid]
    /\ UNCHANGED <<crashed, queue, recvHandle, getter, wsOpen, wire,
                   answered, nFrames, getHist, notTabVars>>

\* Tab.__call__: ws.send returns, the caller waits for t['event']
SendDone(c) ==
    /\ callers[c].pc = "send"
    /\ wsOpen
    /\ wire' = wire \cup {callers[c].msgid}
    /\ callers' = [callers EXCEPT ![c].pc = "wait"]
    /\ UNCHANGED <<msgid, crashed, transactions, queue, recvHandle, getter,
                   wsOpen, answered, nFrames, issued, callHist, getHist,
                   notTabVars>>

\* Tab.__call__: ws.send raises, the connection is closed
SendFail(c) ==
    /\ callers[c].pc = "send"
    /\ ~wsOpen
    /\ callers' = [callers EXCEPT ![c].pc = "done",
                                  ![c].outcome = "ConnectionClosed"]
    /\ UNCHANGED <<msgid, crashed, transactions, queue, recvHandle, getter,
                   wsOpen, wire, answered, nFrames, issued, callHist, getHist,
                   notTabVars>>

\* Tab.__call__ after t['event'].wait (): the result is taken, the transaction
\* deleted, the result returned or raised
CallWake(c) ==
    LET m == callers[c].msgid
    IN  /\ callers[c].pc = "wait"
        /\ transactions[m].event
        /\ callers' = [callers EXCEPT ![c].pc = "done",
                                      ![c].outcome = transactions[m].result]
        /\ transactions' = [k \in DOMAIN transactions \ {m} |-> transactions[k]]
        /\ UNCHANGED <<msgid, crashed, queue, recvHandle, getter, wsOpen,
                       wire, answered, nFrames, issued, callHist, getHist,
                       notTabVars>>

\* the task inside Tab.__call__ is cancelled: CancelledError leaves the await
CallCancel(c) ==
    /\ Outstanding(c)
    /\ callers' = [callers EXCEPT ![c].pc = "done",
                                  ![c].outcome = "Cancelled"]
    /\ UNCHANGED <<msgid, crashed, transactions, queue, recvHandle, getter,
                   wsOpen, wire, answered, nFrames, issued, callHist, getHist,
                   notTabVars>>

(***************************************************************************)
(* Tab.get, called by one task again and again                             *)
(***************************************************************************)
\* what Tab.get does with the item it took from the queue
GetOutcome(item) ==
    IF item.exception # "" THEN item.exception ELSE item.method

\* Tab.get up to queue.get: raises when crashed, takes an item that is there,
\* blocks on an empty queue
GetStart ==
    /\ getter.pc \in {"idle", "done"}
    /\ getHist' = [atCrash |-> FALSE, afterCrash |-> crashed]
    /\ IF crashed
       THEN /\ getter' = [pc |-> "done", outcome |-> "Crashed"]
            /\ UNCHANGED queue
       ELSE IF queue # <<>>
       THEN /\ getter' = [pc |-> "done", outcome |-> GetOutcome(Head(queue))]
            /\ queue' = Tail(queue)
       ELSE /\ getter' = [pc |-> "blocked", outcome |-> ""]
            /\ UNCHANGED queue
    /\ UNCHANGED <<msgid, crashed, transactions, recvHandle, callers, wsOpen,
                   wire, answered, nFrames, issued, callHist, notTabVars>>

\* Tab.get: queue.get returns
GetWake ==
    /\ getter.pc = "blocked"
    /\ queue # <<>>
    /\ getter' = [pc |-> "done", outcome |-> GetOutcome(Head(queue))]
    /\ queue' = Tail(queue)
    /\ UNCHANGED <<msgid, crashed, transactions, recvHandle, callers, wsOpen,
                   wire, answered, nFrames, issued, callHist, getHist,
                   notTabVars>>

(***************************************************************************)
(* The receive task reads what the browser at the other end of the         *)
(* websocket sent.  A frame that arrived before the connection was lost is *)
(* still read after it.                                                    *)
(***************************************************************************)
\* the reply of the browser to a message it has received; one per message
RecvReply(m, code, result) ==
    /\ recvHandle = "running"
    /\ m \in wire \ answered
    /\ (code = 0) # (result = "")
    /\ answered' = answered \cup {m}
    /\ recvProcess(ReplyFrame(m, code, result))
    /\ NoteReply(ReplyFrame(m, code, result))
    /\ UNCHANGED <<msgid, callers, getter, wsOpen, wire, nFrames, issued,
                   notTabVars>>

\* an event of the browser that is queued for Tab.get
RecvEvent(method) ==
    /\ recvHandle = "running"
    /\ nFrames < MaxFrames
    /\ nFrames' = nFrames + 1
    /\ recvProcess(EventFrame(method))
    /\ UNCHANGED <<msgid, callers, getter, wsOpen, wire, answered, issued,
                   callHist, getHist, notTabVars>>

\* the browser reports that the target crashed
RecvTargetCrashed ==
    /\ recvHandle = "running"
    /\ nFrames < MaxFrames
    /\ nFrames' = nFrames + 1
    /\ recvProcess(EventFrame("Inspector.targetCrashed"))
    /\ NoteCrash
    /\ UNCHANGED <<msgid, callers, getter, wsOpen, wire, answered, issued,
                   notTabVars>>

\* a frame that json.loads cannot parse
RecvGarbage ==
    /\ recvHandle = "running"
    /\ nFrames < MaxFrames
    /\ nFrames' = nFrames + 1
    /\ recvProcess(GarbageFrame)
    /\ NoteCrash
    /\ UNCHANGED <<msgid, callers, getter, wsOpen, wire, answered, issued,
                   notTabVars>>

\* ws.recv raises: the connection is gone
RecvClosed ==
    /\ recvHandle = "running"
    /\ ~wsOpen
    /\ markCrashed
    /\ recvHandle' = "done"
    /\ NoteCrash
    /\ UNCHANGED <<msgid, callers, getter, wsOpen, wire, answered, nFrames,
                   issued, notTabVars>>

\* the connection is lost
ConnectionLost ==
    /\ wsOpen
    /\ wsOpen' = FALSE
    /\ UNCHANGED <<msgid, crashed, transactions, queue, recvHandle, callers,
                   getter, wire, answered, nFrames, issued, callHist, getHist,
                   notTabVars>>

\* Tab.__init__ and Tab.run
InitTab ==
    /\ msgid = 1
    /\ crashed = FALSE
    /\ transactions = <<>>
    /\ queue = <<>>
    /\ recvHandle = "running"
    /\ callers = [c \in Callers |-> [pc |-> "idle", msgid |-> 0, outcome |-> ""]]
    /\ getter = [pc |-> "idle", outcome |-> ""]
    /\ wsOpen = TRUE
    /\ wire = {}
    /\ answered = {}
    /\ nFrames = 0
    /\ issued = <<>>
    /\ callHist = [c \in Callers |-> NoCallHist]
    /\ getHist = [atCrash |-> FALSE, afterCrash |-> FALSE]

NextTab ==
    \/ \E c \in Callers : CallStart(c)
    \/ \E c \in Callers : SendDone(c)
    \/ \E c \in Callers : SendFail(c)
    \/ \E c \in Callers : CallWake(c)
    \/ \E c \in Callers : CallCancel(c)
    \/ GetStart
    \/ GetWake
    \/ \E m \in Callers, code \in ErrorCodes \cup {0},
          result \in Results \cup {""} : RecvReply(m, code, result)
    \/ \E method \in {"Network.requestWillBeSent", "Page.loadEventFired"} :
            RecvEvent(method)
    \/ RecvTargetCrashed
    \/ RecvGarbage
    \/ RecvClosed
    \/ ConnectionLost

(***************************************************************************)
(* controller.py: SinglePageController.run, its handlers and its tasks     *)
(*                                                                         *)
(* Time is counted in seconds.  A sleep is a countdown that Tick lowers;   *)
(* the sleeper is resumed some time after the countdown has reached 0.     *)
(***************************************************************************)
\* ControllerSettings.__init__: the defaults
idleTimeout == 2
timeout == 10

\* self.handler after the two appends of run: the handler of the user, the
\* IdleStateTracker, the InjectBehaviorOnload
Handlers == {"user", "idle", "behavior"}

\* the items that are pushed
ControllerStart == [kind |-> "ControllerStart", idle |-> FALSE]
PageIdle(b) == [kind |-> "PageIdle", idle |-> b]
FrameNavigated == [kind |-> "FrameNavigated", idle |-> FALSE]
RequestResponsePair == [kind |-> "RequestResponsePair", idle |-> FALSE]
BehaviorEvent == [kind |-> "Script", idle |-> FALSE]

Dec(n) == IF n > 0 THEN n - 1 ELSE 0
Min(a, b) == IF a < b THEN a ELSE b

\* a handler that keeps the first item it was given
Keep(first, item) ==
    [h \in Handlers |-> IF first[h] = "" THEN item.kind ELSE first[h]]

\* IdleStateTracker.push: the new _idle and the time since _idleSince
IdleStateTracker_push(item, st) ==
    IF item.kind = "PageIdle"
    THEN [idle |-> item.idle,
          elapsed |-> IF item.idle THEN 0 ELSE st.elapsed]
    ELSE st

\* SinglePageController.processItem for the items in items, one after the
\* other: every handler is given every item
RECURSIVE processItems(_, _)
processItems(items, st) ==
    IF items = <<>> THEN st
    ELSE processItems(Tail(items),
            [first |-> Keep(st.first, Head(items)),
             tracker |-> IdleStateTracker_push(Head(items), st.tracker)])

\* processItem, on the variables
processItem(items) ==
    LET st == processItems(items, [first |-> firstPushed, tracker |-> tracker])
    IN  /\ firstPushed' = st.first
        /\ tracker' = st.tracker

\* InjectBehaviorOnload._runon: what the hooks of the enabled behavior yield
runon(method) == <<BehaviorEvent>>

\* a wait that sleeps the whole timeout whenever it has to sleep
WholeSleep_IdleStateTracker_wait(t) ==
    IF tracker.idle /\ t - tracker.elapsed <= 0
    THEN [pc |-> "done", left |-> 0, timeout |-> t]
    ELSE [pc |-> "sleep", left |-> t, timeout |-> t]

\* a wait that looks at the time only, not at _idle
TimeOnly_IdleStateTracker_wait(t) ==
    IF t - tracker.elapsed <= 0
    THEN [pc |-> "done", left |-> 0, timeout |-> t]
    ELSE [pc |-> "sleep", left |-> t - tracker.elapsed, timeout |-> t]

\* IdleStateTracker.wait: one turn of its loop
IdleStateTracker_wait(t) ==
    IF tracker.idle /\ t - tracker.elapsed <= 0
    THEN [pc |-> "done", left |-> 0, timeout |-> t]
    ELSE IF tracker.idle
    THEN [pc |-> "sleep", left |-> t - tracker.elapsed, timeout |-> t]
    ELSE [pc |-> "sleep", left |-> t, timeout |-> t]

\* task.cancel (): a task that is done stays done
Cancel(task) == IF task.pc = "done" THEN task ELSE [task EXCEPT !.pc = "cancelled"]
NoTask == [pc |-> "none", left |-> 0, timeout |-> 0]

(***************************************************************************)
(* run, from its first await to its return                                 *)
(***************************************************************************)
\* tab.Security.setIgnoreCertificateErrors and tab.Browser.getVersion are
\* answered
ConfigReply ==
    /\ ctlPc \in {"setIgnoreCertificateErrors", "getVersion"}
    /\ ctlPc' = IF ctlPc = "setIgnoreCertificateErrors" THEN "getVersion"
                ELSE "getFormattedViewportMetrics"
    /\ UNCHANGED <<exitBy, did, timeoutProc, idleProc, handle, tracker,
                   firstPushed, loaded, framesLoading, ctlTimer, notCtlVars>>

\* getFormattedViewportMetrics is answered: the payload is complete and
\* ControllerStart is pushed, then l.navigate is awaited
PushControllerStart ==
    /\ ctlPc = "getFormattedViewportMetrics"
    /\ processItem(<<ControllerStart>>)
    /\ ctlPc' = "navigate"
    /\ UNCHANGED <<exitBy, did, timeoutProc, idleProc, handle, loaded,
                   framesLoading, ctlTimer, notCtlVars>>

\* l.navigate returns, or raises NavigateError; idleProc is started
NavigateReturns(ok) ==
    /\ ctlPc = "navigate"
    /\ IF ok
       THEN /\ ctlPc' = "waiting"
            /\ idleProc' = [pc |-> "ready", left |-> 0, timeout |-> idleTimeout]
            /\ UNCHANGED exitBy
       ELSE /\ ctlPc' = "raised"
            /\ exitBy' = "NavigateError"
            /\ UNCHANGED idleProc
    /\ UNCHANGED <<did, timeoutProc, handle, tracker, firstPushed, loaded,
                   framesLoading, ctlTimer, notCtlVars>>

\* the loop around asyncio.wait that looks at the idle task first
IdleFirst_WaitReturns ==
    /\ ctlPc = "waiting"
    /\ idleProc.pc = "done" \/ timeoutProc.pc = "done" \/ handle = "failed"
    /\ IF handle = "failed"
       THEN /\ idleProc' = Cancel(idleProc)
            /\ timeoutProc' = Cancel(timeoutProc)
            /\ ctlPc' = "raised"
            /\ exitBy' = "handle"
       ELSE IF idleProc.pc = "done"
       THEN /\ timeoutProc' = Cancel(timeoutProc)
            /\ ctlPc' = "stop"
            /\ exitBy' = "idle"
            /\ UNCHANGED idleProc
       ELSE /\ idleProc' = Cancel(idleProc)
            /\ ctlPc' = "stop"
            /\ exitBy' = "timeout"
            /\ UNCHANGED timeoutProc
    /\ UNCHANGED <<did, handle, tracker, firstPushed, loaded, framesLoading,
                   ctlTimer, notCtlVars>>

\* asyncio.wait returns with the tasks that are finished by now; the three
\* branches in the order of the code
WaitReturns ==
    /\ ctlPc = "waiting"
    /\ idleProc.pc = "done" \/ timeoutProc.pc = "done" \/ handle = "failed"
    /\ IF handle = "failed"
       THEN /\ idleProc' = Cancel(idleProc)
            /\ timeoutProc' = Cancel(timeoutProc)
            /\ ctlPc' = "raised"
            /\ exitBy' = "handle"
       ELSE IF timeoutProc.pc = "done"
       THEN /\ idleProc' = Cancel(idleProc)
            /\ ctlPc' = "stop"
            /\ exitBy' = "timeout"
            /\ UNCHANGED timeoutProc
       ELSE /\ timeoutProc' = Cancel(timeoutProc)
            /\ ctlPc' = "stop"
            /\ exitBy' = "idle"
            /\ UNCHANGED idleProc
    /\ UNCHANGED <<did, handle, tracker, firstPushed, loaded, framesLoading,
                   ctlTimer, notCtlVars>>

\* behavior.stop (), then tab.Page.stopLoading is awaited
BehaviorStop ==
    /\ ctlPc = "stop"
    /\ IF loaded THEN processItem(runon("stop"))
       ELSE UNCHANGED <<firstPushed, tracker>>
    /\ did' = did \cup {"STOPPING"}
    /\ ctlPc' = "stopLoading"
    /\ UNCHANGED <<exitBy, timeoutProc, idleProc, handle, loaded,
                   framesLoading, ctlTimer, notCtlVars>>

\* tab.Page.stopLoading is answered, asyncio.sleep (1) begins
StopLoadingReply ==
    /\ ctlPc = "stopLoading"
    /\ ctlTimer' = 1
    /\ ctlPc' = "sleep"
    /\ UNCHANGED <<exitBy, did, timeoutProc, idleProc, handle, tracker,
                   firstPushed, loaded, framesLoading, notCtlVars>>

\* the sleep is over: behavior.finish (), then
\* asyncio.wait_for (idle.wait (1), timeout=1) begins
BehaviorFinish ==
    /\ ctlPc = "sleep"
    /\ ctlTimer = 0
    /\ IF loaded THEN processItem(runon("finish"))
       ELSE UNCHANGED <<firstPushed, tracker>>
    /\ did' = did \cup {"FINISHING"}
    /\ idleProc' = [pc |-> "ready", left |-> 0, timeout |-> 1]
    /\ ctlTimer' = 1
    /\ ctlPc' = "wait_for"
    /\ UNCHANGED <<exitBy, timeoutProc, handle, loaded, framesLoading,
                   notCtlVars>>

\* wait_for returns, or raises TimeoutError which is passed over; then the
\* drain task is looked at: its exception is raised, or it is cancelled
Return ==
    /\ ctlPc = "wait_for"
    /\ idleProc.pc = "done" \/ ctlTimer = 0
    /\ idleProc' = Cancel(idleProc)
    /\ IF handle = "failed"
       THEN ctlPc' = "raised" /\ UNCHANGED handle
       ELSE ctlPc' = "returned" /\ handle' = "cancelled"
    /\ UNCHANGED <<exitBy, did, timeoutProc, tracker, firstPushed, loaded,
                   framesLoading, ctlTimer, notCtlVars>>

(***************************************************************************)
(* The tasks of run                                                        *)
(***************************************************************************)
\* timeoutProc: asyncio.sleep (self.settings.timeout) is over
TimeoutFires ==
    /\ timeoutProc.pc = "sleep"
    /\ timeoutProc.left = 0
    /\ timeoutProc' = [timeoutProc EXCEPT !.pc = "done"]
    /\ UNCHANGED <<ctlPc, exitBy, did, idleProc, handle, tracker, firstPushed,
                   loaded, framesLoading, ctlTimer, notCtlVars>>

\* idle.wait: the task runs one turn of the loop, at its start and after
\* each sleep
IdleWaitTurn ==
    /\ \/ idleProc.pc = "ready"
       \/ idleProc.pc = "sleep" /\ idleProc.left = 0
    /\ idleProc' = IdleStateTracker_wait(idleProc.timeout)
    /\ UNCHANGED <<ctlPc, exitBy, did, timeoutProc, handle, tracker,
                   firstPushed, loaded, framesLoading, ctlTimer, notCtlVars>>

\* the kinds of the items pushed once run has raised
Late(items) ==
    IF ctlPc = "raised"
    THEN afterEnd \cup {items[i].kind : i \in DOMAIN items}
    ELSE afterEnd

\* processQueue runs until it is cancelled or the tab is closed: the
\* collector yields PageIdle when the first frame starts
\* loading and when the last one has stopped
DrainPageIdle ==
    /\ handle = "running"
    /\ procPc = "entered"
    /\ framesLoading' = ~framesLoading
    /\ processItem(<<PageIdle(framesLoading)>>)
    /\ afterEnd' = Late(<<PageIdle(framesLoading)>>)
    /\ idleDelivered' = (idleDelivered \/ ctlPc \in {"navigate", "waiting"})
    /\ UNCHANGED <<ctlPc, exitBy, did, timeoutProc, idleProc, handle, loaded,
                   ctlTimer, notDrainVars>>

\* processQueue: the collector yields a pair once the page is navigated to
DrainPair ==
    /\ handle = "running"
    /\ procPc = "entered"
    /\ ctlPc \notin {"setIgnoreCertificateErrors", "getVersion",
                     "getFormattedViewportMetrics"}
    /\ processItem(<<RequestResponsePair>>)
    /\ afterEnd' = Late(<<RequestResponsePair>>)
    /\ UNCHANGED idleDelivered
    /\ UNCHANGED <<ctlPc, exitBy, did, timeoutProc, idleProc, handle, loaded,
                   framesLoading, ctlTimer, notDrainVars>>

\* processQueue: the collector yields FrameNavigated for the root frame;
\* InjectBehaviorOnload.push runs the onload hooks
DrainFrameNavigated ==
    /\ handle = "running"
    /\ procPc = "entered"
    /\ ctlPc \notin {"setIgnoreCertificateErrors", "getVersion",
                     "getFormattedViewportMetrics"}
    /\ processItem(<<FrameNavigated>> \o runon("load"))
    /\ afterEnd' = Late(<<FrameNavigated>> \o runon("load"))
    /\ UNCHANGED idleDelivered
    /\ loaded' = TRUE
    /\ UNCHANGED <<ctlPc, exitBy, did, timeoutProc, idleProc, handle,
                   framesLoading, ctlTimer, notDrainVars>>

\* processQueue: the push of a handler raises, the task ends with it
DrainFails ==
    /\ handle = "running"
    /\ procPc = "entered"
    /\ handle' = "failed"
    /\ UNCHANGED <<ctlPc, exitBy, did, timeoutProc, idleProc, tracker,
                   firstPushed, loaded, framesLoading, ctlTimer, notCtlVars>>

\* a second passes
Tick ==
    /\ ctlPc \notin {"returned", "raised"}
    /\ timeoutProc' = IF timeoutProc.pc = "sleep"
                      THEN [timeoutProc EXCEPT !.left = Dec(@)]
                      ELSE timeoutProc
    /\ idleProc' = IF idleProc.pc = "sleep"
                   THEN [idleProc EXCEPT !.left = Dec(@)]
                   ELSE idleProc
    /\ ctlTimer' = Dec(ctlTimer)
    /\ tracker' = [tracker EXCEPT !.elapsed = Min(@ + 1, idleTimeout)]
    /\ UNCHANGED <<ctlPc, exitBy, did, handle, firstPushed, loaded,
                   framesLoading, notCtlVars>>

\* run up to its first await: the tracker exists since before the browser
\* was started, the drain task and the timeout task are just started
InitCtl ==
    /\ ctlPc = "setIgnoreCertificateErrors"
    /\ exitBy = ""
    /\ did = {}
    /\ timeoutProc = [pc |-> "sleep", left |-> timeout, timeout |-> timeout]
    /\ idleProc = NoTask
    /\ handle = "running"
    /\ tracker \in {[idle |-> TRUE, elapsed |-> e] : e \in 0..idleTimeout}
    /\ firstPushed = [h \in Handlers |-> ""]
    /\ loaded = FALSE
    /\ framesLoading = FALSE
    /\ ctlTimer = 0
    /\ afterEnd = {}
    /\ idleDelivered = FALSE

(***************************************************************************)
(* async with self.service as browser, SiteLoader (browser) as l           *)
(***************************************************************************)
\* reads of DevToolsActivePort in Process.__aenter__
PortTries == 100

\* Process.__aenter__: asyncio.create_subprocess_exec starts Chrome
ProcessSpawn ==
    /\ procPc = "spawn"
    /\ child' = "running"
    /\ procPc' = "poll"
    /\ UNCHANGED <<tries, portFile, ctlVars, notProcVars>>

\* Process.__aenter__: one turn of the loop over range (100), up to the
\* sleep; after the last turn the port is still None and Exception is raised
\* out of __aenter__, so that __aexit__ is not run; the count of the turns
\* is of no use once the port is read
PortPoll ==
    /\ procPc = "poll"
    /\ IF tries = PortTries
       THEN /\ procPc' = "raised"
            /\ ctlPc' = "raised"
            /\ exitBy' = "Exception"
            /\ UNCHANGED tries
       ELSE IF portFile
       THEN /\ procPc' = "siteLoader"
            /\ tries' = 0
            /\ UNCHANGED <<ctlPc, exitBy>>
       ELSE /\ procPc' = "pollSleep"
            /\ tries' = tries + 1
            /\ UNCHANGED <<ctlPc, exitBy>>
    /\ UNCHANGED <<child, portFile, did, timeoutProc, idleProc, handle,
                   tracker, firstPushed, loaded, framesLoading, ctlTimer,
                   notProcVars>>

\* asyncio.sleep (0.2) in the loop is over
PollWake ==
    /\ procPc = "pollSleep"
    /\ procPc' = "poll"
    /\ UNCHANGED <<child, tries, portFile, ctlVars, notProcVars>>

\* the task of run is cancelled while it sleeps in the loop: CancelledError
\* leaves __aenter__
StartupCancelled ==
    /\ procPc = "pollSleep"
    /\ procPc' = "raised"
    /\ ctlPc' = "raised"
    /\ exitBy' = "CancelledError"
    /\ UNCHANGED <<child, tries, portFile, did, timeoutProc, idleProc, handle,
                   tracker, firstPushed, loaded, framesLoading, ctlTimer,
                   notProcVars>>

\* Chrome writes the port it listens on
ChromeWritesPort ==
    /\ child = "running"
    /\ procPc \in {"poll", "pollSleep"}
    /\ ~portFile
    /\ portFile' = TRUE
    /\ UNCHANGED <<procPc, child, tries, ctlVars, notProcVars>>

\* Chrome exits before it has written the port; the child watcher of the
\* event loop collects its exit status
ChromeDies ==
    /\ child = "running"
    /\ procPc \in {"poll", "pollSleep"}
    /\ ~portFile
    /\ child' = "reaped"
    /\ UNCHANGED <<procPc, tries, portFile, ctlVars, notProcVars>>

\* SiteLoader.__aenter__ has made the tab; run starts the drain task and the
\* timeout task and awaits its first call
SiteLoaderEnter ==
    /\ procPc = "siteLoader"
    /\ procPc' = "entered"
    /\ handle' = "running"
    /\ timeoutProc' = [pc |-> "sleep", left |-> timeout, timeout |-> timeout]
    /\ ctlPc' = "setIgnoreCertificateErrors"
    /\ UNCHANGED <<child, tries, portFile, exitBy, did, idleProc, tracker,
                   firstPushed, loaded, framesLoading, ctlTimer, notProcVars>>

\* the body of the async with is left: SiteLoader.__aexit__ has closed the
\* tab, Process.__aexit__ begins
SiteLoaderExit ==
    /\ procPc = "entered"
    /\ ctlPc \in {"returned", "raised"}
    /\ procPc' = "terminate"
    /\ UNCHANGED <<child, tries, portFile, ctlVars, notProcVars>>

\* Process.__aexit__: self.p.terminate (), then self.p.wait () is awaited
ProcessTerminate ==
    /\ procPc = "terminate"
    /\ child' = "terminated"
    /\ procPc' = "wait"
    /\ UNCHANGED <<tries, portFile, ctlVars, notProcVars>>

\* Process.__aexit__: self.p.wait () returns, the directory is removed
ProcessWaited ==
    /\ procPc = "wait"
    /\ child' = "reaped"
    /\ procPc' = "exited"
    /\ UNCHANGED <<tries, portFile, ctlVars, notProcVars>>

\* the body of the async with is entered, Chrome runs
InitProc ==
    /\ procPc = "entered"
    /\ child = "running"
    /\ tries = 0
    /\ portFile = TRUE

\* run before the async with: the tracker is made, no task is started
InitStartup ==
    /\ ctlPc = "aenter"
    /\ exitBy = ""
    /\ did = {}
    /\ timeoutProc = NoTask
    /\ idleProc = NoTask
    /\ handle = "none"
    /\ tracker = [idle |-> TRUE, elapsed |-> 0]
    /\ firstPushed = [h \in Handlers |-> ""]
    /\ loaded = FALSE
    /\ framesLoading = FALSE
    /\ ctlTimer = 0
    /\ afterEnd = {}
    /\ idleDelivered = FALSE
    /\ procPc = "spawn"
    /\ child = "none"
    /\ tries = 0
    /\ portFile = FALSE

(***************************************************************************)
(* IdleStateTracker.wait on the clock: the page is busy, becomes idle at   *)
(* time 0 and stays idle; time is counted in scheduling ticks and a sleep  *)
(* that is over is resumed within one tick                                 *)
(***************************************************************************)
\* the timeouts wait is called with, in ticks
WaitTimes == 1..MaxWait

\* the clock stops here, after every wait has returned
MaxClock == MaxWait + 2

\* the collector yields PageIdle (true) at time 0 and the tracker is given it
BecomesIdle ==
    /\ ~idleAt0
    /\ tracker' = IdleStateTracker_push(PageIdle(TRUE), tracker)
    /\ idleAt0' = TRUE
    /\ UNCHANGED <<clock, late, retAt, ctlPc, exitBy, did, timeoutProc,
                   idleProc, handle, firstPushed, loaded, framesLoading,
                   ctlTimer, notClockVars>>

\* asyncio.ensure_future (idle.wait (t)), called at a time in [0, t]: the
\* task is ready to run
CallWait(t) ==
    /\ idleProc = NoTask
    /\ clock <= t
    /\ idleProc' = [pc |-> "ready", left |-> 0, timeout |-> t]
    /\ UNCHANGED <<clock, idleAt0, late, retAt, ctlPc, exitBy, did,
                   timeoutProc, handle, tracker, firstPushed, loaded,
                   framesLoading, ctlTimer, notClockVars>>

\* the task of wait can be run: it is new, or its sleep is over
Due == idleProc.pc = "ready" \/ (idleProc.pc = "sleep" /\ idleProc.left = 0)

\* the event loop runs the task of wait: one turn of the loop of wait
WaitResumed ==
    /\ Due
    /\ idleProc' = IdleStateTracker_wait(idleProc.timeout)
    /\ retAt' = IF idleProc'.pc = "done" THEN clock ELSE retAt
    /\ late' = FALSE
    /\ UNCHANGED <<clock, idleAt0, ctlPc, exitBy, did, timeoutProc, handle,
                   tracker, firstPushed, loaded, framesLoading, ctlTimer,
                   notClockVars>>

\* a scheduling tick passes; a task that can be run waits for one tick at
\* most
ClockTick ==
    /\ idleAt0
    /\ clock < MaxClock
    /\ ~(Due /\ late)
    /\ clock' = clock + 1
    /\ late' = Due
    /\ idleProc' = IF idleProc.pc = "sleep"
                   THEN [idleProc EXCEPT !.left = Dec(@)]
                   ELSE idleProc
    /\ tracker' = [tracker EXCEPT !.elapsed = Min(@ + 1, MaxClock)]
    /\ UNCHANGED <<idleAt0, retAt, ctlPc, exitBy, did, timeoutProc, handle,
                   firstPushed, loaded, framesLoading, ctlTimer, notClockVars>>

\* not on the clock: the other specifications
InitClock ==
    /\ clock = 0
    /\ idleAt0 = FALSE
    /\ late = FALSE
    /\ retAt = -1

\* a tracker that was given PageIdle (false) some time ago, time 0
InitBusy ==
    /\ ctlPc = "waiting"
    /\ exitBy = ""
    /\ did = {}
    /\ timeoutProc = NoTask
    /\ idleProc = NoTask
    /\ handle = "none"
    /\ tracker \in {[idle |-> FALSE, elapsed |-> e] : e \in 0..idleTimeout}
    /\ firstPushed = [h \in Handlers |-> ""]
    /\ loaded = FALSE
    /\ framesLoading = TRUE
    /\ ctlTimer = 0
    /\ afterEnd = {}
    /\ idleDelivered = FALSE
    /\ InitProc
    /\ InitClock

NextIdle ==
    \/ BecomesIdle
    \/ \E t \in WaitTimes : CallWait(t)
    \/ WaitResumed
    \/ ClockTick

(***************************************************************************)
(* The handler chain and the hooks, step by step                           *)
(*                                                                         *)
(* Two tasks call processItem: the drain task processQueue and the task of *)
(* run.  Each has a stack of the calls it is in; it is switched away from  *)
(* only at an await that suspends: the push of the user's handler, a       *)
(* DevTools call, the next item of the collector, and the awaits of run.   *)
(***************************************************************************)
Tasks == {"drain", "run"}

\* the injector first
InjectorFirst_HandlerOrder == <<"behavior", "user", "idle">>

\* self.handler in run: the handlers of the user, then idle, then behavior
HandlerOrder == <<"user", "idle", "behavior">>

\* controller._enabledBehavior, in the order of behavior.available
Behaviors == <<"scroll", "extractLinks">>

ExtractLinksEvent == [kind |-> "ExtractLinksEvent", idle |-> FALSE]
NoItem == [kind |-> "", idle |-> FALSE]

\* an item with what tells it from the others: the number of the item of the
\* collector (of the one that triggered the hook, for a yielded item) and the
\* hook that yielded it
Mk(item, n, b, phase) ==
    [kind |-> item.kind, idle |-> item.idle, n |-> n, b |-> b, phase |-> phase]

Yield(item) == [op |-> "yield", item |-> item, m |-> ""]
Call(m) == [op |-> "call", item |-> NoItem, m |-> m]

\* hooks that evaluate the script before they yield it
EvaluateFirst_Hook(name, phase) ==
    IF name = "scroll" /\ phase = "load"
    THEN <<Call("Runtime.evaluate"), Yield(BehaviorEvent),
           Call("Runtime.callFunctionOn")>>
    ELSE IF name = "scroll" /\ phase = "stop"
    THEN <<Call("Runtime.callFunctionOn"), Call("Runtime.releaseObject")>>
    ELSE IF name = "extractLinks" /\ phase = "finish"
    THEN <<Call("Runtime.evaluate"), Yield(BehaviorEvent),
           Yield(ExtractLinksEvent)>>
    ELSE <<>>

\* the async generators onload, onstop and onfinish of Scroll (a JsOnload
\* without options) and of ExtractLinks: what they yield and call, in order
Hook(name, phase) ==
    IF name = "scroll" /\ phase = "load"
    THEN <<Yield(BehaviorEvent), Call("Runtime.evaluate"),
           Call("Runtime.callFunctionOn")>>
    ELSE IF name = "scroll" /\ phase = "stop"
    THEN <<Call("Runtime.callFunctionOn"), Call("Runtime.releaseObject")>>
    ELSE IF name = "extractLinks" /\ phase = "finish"
    THEN <<Yield(BehaviorEvent), Call("Runtime.evaluate"),
           Yield(ExtractLinksEvent)>>
    ELSE <<>>

\* the calls a task is in
Frame(op, item, h, phase, b, k, m) ==
    [op |-> op, item |-> item, h |-> h, phase |-> phase, b |-> b, k |-> k,
     m |-> m]
ProcessItemFrame(item) == Frame("processItem", item, 1, "", 0, 0, "")
PushFrame(item, h) == Frame("push", item, h, "", 0, 0, "")
RunonFrame(phase, item) == Frame("runon", item, 0, phase, 1, 0, "")
HookFrame(phase, b, item) == Frame("hook", item, 0, phase, b, 1, "")
CallFrame(m) == Frame("call", NoItem, 0, "", 0, 0, m)

Top(s) == s[Len(s)]
Pop(s) == SubSeq(s, 1, Len(s) - 1)
SetTop(s, f) == [s EXCEPT ![Len(s)] = f]

\* what is seen of the chain
Ev(ev, h, item, b, phase, m) ==
    [ev |-> ev, h |-> h, item |-> item, b |-> b, phase |-> phase, m |-> m]
PushEv(h, item) == Ev("push", h, item, 0, "", "")
PushedEv(h, item) == Ev("pushed", h, item, 0, "", "")

\* the awaits of run that suspend it
RunAwaits == {"setIgnoreCertificateErrors", "getVersion",
              "getFormattedViewportMetrics", "navigate", "waiting",
              "stopLoading", "sleep", "wait_for"}

\* the task is at an await that suspends it
AtAwait(T, stk, pc) ==
    IF stk # <<>>
    THEN \/ Top(stk).op = "call"
         \/ Top(stk).op = "push" /\ HandlerOrder[Top(stk).h] = "user"
    ELSE T = "drain" \/ pc \in RunAwaits \/ pc \in {"returned", "raised"}

\* the event loop can run the task
CanRun(T) == running = T \/ (running = "none" /\ AtAwait(T, stack[T], ctlPc))

\* the task goes on to stk, events evs are seen
Do(T, stk, evs) ==
    /\ stack' = [stack EXCEPT ![T] = stk]
    /\ hlog' = [hlog EXCEPT ![T] = @ \o evs]
    /\ running' = IF AtAwait(T, stk, ctlPc') THEN "none" ELSE T

\* a stop and a finish of the injector that do not look at _loaded
Always_InjectBehaviorOnload_phase(phase) == <<RunonFrame(phase, Mk(NoItem, 0, 0, ""))>>

\* InjectBehaviorOnload.stop and finish: the hooks are run when _loaded
InjectBehaviorOnload_phase(phase) ==
    IF loaded THEN <<RunonFrame(phase, Mk(NoItem, 0, 0, ""))>> ELSE <<>>

\* processItem: the loop over self.handler calls the push of the next handler
\* up to its first await that suspends; the push of idle and the push of
\* behavior for an item that is no FrameNavigated return at once
ProcessItemStep(T) ==
    /\ stack[T] # <<>>
    /\ CanRun(T)
    /\ Top(stack[T]).op = "processItem"
    /\ LET f == Top(stack[T])
           item == f.item
       IN  IF f.h > Len(HandlerOrder)
           THEN /\ UNCHANGED <<ctlPc, tracker>>
                /\ Do(T, Pop(stack[T]), <<>>)
           ELSE LET name == HandlerOrder[f.h]
                    s2 == SetTop(stack[T], [f EXCEPT !.h = f.h + 1])
                IN  /\ UNCHANGED ctlPc
                    /\ tracker' = IF name = "idle"
                                  THEN IdleStateTracker_push(item, tracker)
                                  ELSE tracker
                    /\ IF name = "user"
                       THEN Do(T, s2 \o <<PushFrame(item, f.h)>>,
                               <<PushEv(name, item)>>)
                       ELSE IF name = "behavior" /\ item.kind = "FrameNavigated"
                       THEN Do(T, s2 \o <<PushFrame(item, f.h),
                                          RunonFrame("load", item)>>,
                               <<PushEv(name, item)>>)
                       ELSE Do(T, s2, <<PushEv(name, item), PushedEv(name, item)>>)
    /\ UNCHANGED <<loaded, handle, nItems, notHookVars>>

\* a push that was suspended returns: the push of the user's handler when
\* its await is over, InjectBehaviorOnload.push when _runon has returned
PushReturns(T) ==
    /\ stack[T] # <<>>
    /\ CanRun(T)
    /\ Top(stack[T]).op = "push"
    /\ LET f == Top(stack[T])
           name == HandlerOrder[f.h]
       IN  /\ loaded' = IF name = "behavior" THEN TRUE ELSE loaded
           /\ UNCHANGED ctlPc
           /\ Do(T, Pop(stack[T]), <<PushedEv(name, f.item)>>)
    /\ UNCHANGED <<tracker, handle, nItems, notHookVars>>

\* _runon: the loop over controller._enabledBehavior calls the hook of the
\* next behavior
RunonStep(T) ==
    /\ stack[T] # <<>>
    /\ CanRun(T)
    /\ Top(stack[T]).op = "runon"
    /\ UNCHANGED ctlPc
    /\ LET f == Top(stack[T])
       IN  IF f.b > Len(Behaviors)
           THEN Do(T, Pop(stack[T]), <<>>)
           ELSE Do(T, SetTop(stack[T], [f EXCEPT !.b = f.b + 1])
                        \o <<HookFrame(f.phase, f.b, f.item)>>,
                   <<Ev("hook", "", f.item, f.b, f.phase, "")>>)
    /\ UNCHANGED <<tracker, loaded, handle, nItems, notHookVars>>

\* a hook runs to its next yield, whose item is given to processItem, to its
\* next call, which is sent, or to its end
HookStep(T) ==
    /\ stack[T] # <<>>
    /\ CanRun(T)
    /\ Top(stack[T]).op = "hook"
    /\ UNCHANGED ctlPc
    /\ LET f == Top(stack[T])
           prog == Hook(Behaviors[f.b], f.phase)
           s2 == SetTop(stack[T], [f EXCEPT !.k = f.k + 1])
       IN  IF f.k > Len(prog)
           THEN Do(T, Pop(stack[T]), <<Ev("hookEnd", "", f.item, f.b, f.phase, "")>>)
           ELSE IF prog[f.k].op = "yield"
           THEN Do(T, s2 \o <<ProcessItemFrame(
                                Mk(prog[f.k].item, f.item.n, f.b, f.phase))>>,
                   <<Ev("yield", "", Mk(prog[f.k].item, f.item.n, f.b, f.phase),
                        f.b, f.phase, "")>>)
           ELSE Do(T, s2 \o <<CallFrame(prog[f.k].m)>>,
                   <<Ev("sent", "", f.item, f.b, f.phase, prog[f.k].m)>>)
    /\ UNCHANGED <<tracker, loaded, handle, nItems, notHookVars>>

\* the call of a hook is answered
CallAnswered(T) ==
    /\ stack[T] # <<>>
    /\ CanRun(T)
    /\ Top(stack[T]).op = "call"
    /\ UNCHANGED ctlPc
    /\ Do(T, Pop(stack[T]), <<>>)
    /\ UNCHANGED <<tracker, loaded, handle, nItems, notHookVars>>

\* what the collector yields
DrainItems == {PageIdle(FALSE), PageIdle(TRUE), FrameNavigated,
               RequestResponsePair}

\* processQueue: the collector yields its next item
DrainNext(item) ==
    /\ handle = "running"
    /\ stack["drain"] = <<>>
    /\ running = "none"
    /\ nItems < MaxItems
    /\ item.kind = "PageIdle"
         \/ ctlPc \notin {"setIgnoreCertificateErrors", "getVersion",
                          "getFormattedViewportMetrics"}
    /\ nItems' = nItems + 1
    /\ UNCHANGED ctlPc
    /\ Do("drain", <<ProcessItemFrame(Mk(item, nItems + 1, 0, ""))>>, <<>>)
    /\ UNCHANGED <<tracker, loaded, handle, notHookVars>>

\* run: setIgnoreCertificateErrors and getVersion are answered
RunConfigReply ==
    /\ running = "none"
    /\ ctlPc \in {"setIgnoreCertificateErrors", "getVersion"}
    /\ ctlPc' = IF ctlPc = "setIgnoreCertificateErrors" THEN "getVersion"
                ELSE "getFormattedViewportMetrics"
    /\ UNCHANGED <<stack, running, hlog, nItems, tracker, loaded, handle,
                   notHookVars>>

\* run: the payload is complete, processItem (ControllerStart (payload))
RunControllerStart ==
    /\ running = "none"
    /\ ctlPc = "getFormattedViewportMetrics"
    /\ ctlPc' = "processItem"
    /\ Do("run", <<ProcessItemFrame(Mk(ControllerStart, 0, 0, ""))>>, <<>>)
    /\ UNCHANGED <<nItems, tracker, loaded, handle, notHookVars>>

\* run: processItem has returned, l.navigate is awaited
RunNavigate ==
    /\ running = "run"
    /\ stack["run"] = <<>>
    /\ ctlPc = "processItem"
    /\ ctlPc' = "navigate"
    /\ Do("run", <<>>, <<>>)
    /\ UNCHANGED <<nItems, tracker, loaded, handle, notHookVars>>

\* run: l.navigate returns and the loop around asyncio.wait begins
RunNavigateReturns ==
    /\ running = "none"
    /\ ctlPc = "navigate"
    /\ ctlPc' = "waiting"
    /\ UNCHANGED <<stack, running, hlog, nItems, tracker, loaded, handle,
                   notHookVars>>

\* run with the call of stopLoading before the onstop hooks
StopLoadingFirst_RunLeavesLoop ==
    /\ running = "none"
    /\ ctlPc = "waiting"
    /\ ctlPc' = "stop"
    /\ Do("run", InjectBehaviorOnload_phase("stop"),
          <<Ev("sent", "", Mk(NoItem, 0, 0, ""), 0, "", "Page.stopLoading")>>)
    /\ UNCHANGED <<nItems, tracker, loaded, handle, notHookVars>>

\* run: the loop is left by the idle or the timeout branch, behavior.stop ()
RunLeavesLoop ==
    /\ running = "none"
    /\ ctlPc = "waiting"
    /\ ctlPc' = "stop"
    /\ Do("run", InjectBehaviorOnload_phase("stop"), <<>>)
    /\ UNCHANGED <<nItems, tracker, loaded, handle, notHookVars>>

\* run: behavior.stop () has returned, tab.Page.stopLoading is sent
RunStopLoading ==
    /\ running = "run"
    /\ stack["run"] = <<>>
    /\ ctlPc = "stop"
    /\ ctlPc' = "stopLoading"
    /\ Do("run", <<>>,
          <<Ev("sent", "", Mk(NoItem, 0, 0, ""), 0, "", "Page.stopLoading")>>)
    /\ UNCHANGED <<nItems, tracker, loaded, handle, notHookVars>>

\* run: stopLoading is answered, asyncio.sleep (1)
RunStopLoadingReply ==
    /\ running = "none"
    /\ ctlPc = "stopLoading"
    /\ ctlPc' = "sleep"
    /\ UNCHANGED <<stack, running, hlog, nItems, tracker, loaded, handle,
                   notHookVars>>

\* run: the sleep is over, behavior.finish ()
RunFinish ==
    /\ running = "none"
    /\ ctlPc = "sleep"
    /\ ctlPc' = "finish"
    /\ Do("run", InjectBehaviorOnload_phase("finish"), <<>>)
    /\ UNCHANGED <<nItems, tracker, loaded, handle, notHookVars>>

\* run: behavior.finish () has returned, wait_for (idle.wait (1)) is awaited
RunWaitFor ==
    /\ running = "run"
    /\ stack["run"] = <<>>
    /\ ctlPc = "finish"
    /\ ctlPc' = "wait_for"
    /\ Do("run", <<>>, <<>>)
    /\ UNCHANGED <<nItems, tracker, loaded, handle, notHookVars>>

\* run: wait_for is over, the drain task is cancelled where it is suspended
\* and run returns
RunReturn ==
    /\ running = "none"
    /\ ctlPc = "wait_for"
    /\ ctlPc' = "returned"
    /\ handle' = "cancelled"
    /\ stack' = [stack EXCEPT !["drain"] = <<>>]
    /\ UNCHANGED <<running, hlog, nItems, tracker, loaded, notHookVars>>

InitHooks ==
    /\ stack = [T \in Tasks |-> <<>>]
    /\ running = "none"
    /\ hlog = [T \in Tasks |-> <<>>]
    /\ nItems = 0

NextHooks ==
    \/ \E T \in Tasks : ProcessItemStep(T)
    \/ \E T \in Tasks : PushReturns(T)
    \/ \E T \in Tasks : RunonStep(T)
    \/ \E T \in Tasks : HookStep(T)
    \/ \E T \in Tasks : CallAnswered(T)
    \/ \E item \in DrainItems : DrainNext(item)
    \/ RunConfigReply
    \/ RunControllerStart
    \/ RunNavigate
    \/ RunNavigateReturns
    \/ RunLeavesLoop
    \/ RunStopLoading
    \/ RunStopLoadingReply
    \/ RunFinish
    \/ RunWaitFor
    \/ RunReturn

NextCtl ==
    \/ ConfigReply
    \/ PushControllerStart
    \/ \E ok \in BOOLEAN : NavigateReturns(ok)
    \/ WaitReturns
    \/ BehaviorStop
    \/ StopLoadingReply
    \/ BehaviorFinish
    \/ Return
    \/ TimeoutFires
    \/ IdleWaitTurn
    \/ DrainPageIdle
    \/ DrainPair
    \/ DrainFrameNavigated
    \/ DrainFails
    \/ Tick
    \/ SiteLoaderExit
    \/ ProcessTerminate
    \/ ProcessWaited

\* run from its call on
NextProc ==
    \/ ProcessSpawn
    \/ PortPoll
    \/ PollWake
    \/ StartupCancelled
    \/ ChromeWritesPort
    \/ ChromeDies
    \/ SiteLoaderEnter
    \/ NextCtl

(***************************************************************************)
(* browser.py: javascript dialogs                                          *)
(***************************************************************************)
DialogTypes == {"alert", "confirm", "prompt", "beforeunload", "other"}

\* tab.Page.handleJavaScriptDialog (accept=...)
handleJavaScriptDialog(calls, accept) ==
    Append(calls, [method |-> "Page.handleJavaScriptDialog",
                   accept |-> accept])

\* a callback that accepts whatever dialog opens
AcceptAll_javascriptDialogOpening(kwargs) ==
    /\ logged' = Append(logged, "info")
    /\ pageCalls' = handleJavaScriptDialog(pageCalls, TRUE)

\* SiteLoader._javascriptDialogOpening
javascriptDialogOpening(kwargs) ==
    LET t == kwargs.type
    IN  IF t \in {"alert", "confirm", "prompt"}
        THEN /\ logged' = Append(logged, "info")
             /\ pageCalls' = handleJavaScriptDialog(pageCalls, FALSE)
        ELSE IF t = "beforeunload"
        THEN /\ logged' = Append(logged, "info")
             /\ pageCalls' = handleJavaScriptDialog(pageCalls, TRUE)
        ELSE /\ logged' = Append(logged, "warning")
             /\ UNCHANGED pageCalls

\* the page opens a dialog and stops until it is closed; the browser sends
\* Page.javascriptDialogOpening
PageOpensDialog(t) ==
    /\ dlgOpen = ""
    /\ Len(dlgHist) < MaxDialogs
    /\ dlgOpen' = t
    /\ dlgEvent' = [type |-> t, message |-> "m"]
    /\ dlgHist' = Append(dlgHist, [type |-> t, handled |-> FALSE,
                                   answers |-> <<>>, warnings |-> 0,
                                   closed |-> FALSE])
    /\ UNCHANGED <<pageCalls, logged>>
    /\ UNCHANGED notDialogVars

\* the event is delivered: the callback installed by SiteLoader.__enter__ runs
PageJavascriptDialogOpening ==
    /\ dlgEvent # None
    /\ javascriptDialogOpening(dlgEvent)
    /\ dlgEvent' = None
    /\ dlgHist' = [dlgHist EXCEPT ![Len(dlgHist)] =
            [@ EXCEPT !.handled = TRUE,
                      !.answers = @ \o [i \in 1..(Len(pageCalls') - Len(pageCalls))
                                          |-> pageCalls'[Len(pageCalls) + i].accept],
                      !.warnings = @ + (IF logged'[Len(logged')] = "warning"
                                        THEN 1 ELSE 0)]]
    /\ UNCHANGED dlgOpen
    /\ UNCHANGED notDialogVars

\* the browser reads a Page.handleJavaScriptDialog call and closes the dialog
\* it shows
BrowserHandlesDialog ==
    /\ pageCalls # <<>>
    /\ pageCalls' = Tail(pageCalls)
    /\ dlgOpen' = ""
    /\ dlgHist' = IF dlgOpen # ""
                  THEN [dlgHist EXCEPT ![Len(dlgHist)].closed = TRUE]
                  ELSE dlgHist
    /\ UNCHANGED <<dlgEvent, logged>>
    /\ UNCHANGED notDialogVars

InitDialog ==
    /\ dlgOpen = ""
    /\ dlgEvent = None
    /\ pageCalls = <<>>
    /\ logged = <<>>
    /\ dlgHist = <<>>

NextDialog ==
    \/ \E t \in DialogTypes : PageOpensDialog(t)
    \/ PageJavascriptDialogOpening
    \/ BrowserHandlesDialog

(***************************************************************************)
(* warc.py                                                                 *)
(***************************************************************************)
\* WarcHandler.maxLogSize, in log lines
maxLogSize == 1

DocUrls == {"http://a/", "https://b/"}

\* a body as Item.requestBody and Item.body hold it: the bytes and whether
\* they were base64 encoded
Body(payload, base64Encoded) ==
    [payload |-> payload, base64Encoded |-> base64Encoded]

\* request/response pairs as the collector hands them over
Pair(id, url, type, failed, isRedirect, requestBody, body) ==
    [kind |-> "Item", id |-> id, url |-> url, resourceType |-> type,
     failed |-> failed, isRedirect |-> isRedirect,
     requestBody |-> requestBody, body |-> body]

Pairs ==
    {Pair(1, "http://a/", "Document", TRUE, FALSE, None, None),
     Pair(1, "http://a/", "Document", FALSE, FALSE,
          Body("", FALSE), Body("html", FALSE)),
     Pair(2, "https://b/", "Document", FALSE, FALSE,
          Body("post", FALSE), None),
     Pair(2, "http://a/", "Document", FALSE, TRUE,
          Body("post", TRUE), Body("next", FALSE)),
     Pair(1, "http://a/", "Image", FALSE, FALSE,
          None, Body("png", TRUE))}

\* what is pushed to the handler
WarcItems ==
    {[kind |-> "ControllerStart"], [kind |-> "Script"], [kind |-> "PageIdle"]}
        \cup {[kind |-> k, url |-> u] :
                k \in {"ScreenshotEvent", "DomSnapshotEvent"}, u \in DocUrls}
        \cup Pairs

\* str (bool)
Str(b) == IF b THEN "True" ELSE "False"

\* WarcHandler.writeRecord: the record gets the next record id; the headers
\* the caller does not pass are absent
writeRecord(w, url, kind, payload, hdr) ==
    [w EXCEPT !.records = Append(@,
        [id |-> Len(@) + 1, type |-> kind, uri |-> url, payload |-> payload,
         warcinfoId |-> w.warcinfoRecordId,
         concurrentTo |-> hdr.concurrentTo, reqId |-> hdr.reqId,
         truncated |-> hdr.truncated, base64Body |-> hdr.base64Body,
         refersTo |-> hdr.refersTo])]

\* warc_headers_dict without the headers of pairs and conversions
NoHeaders ==
    [concurrentTo |-> 0, reqId |-> 0, truncated |-> "", base64Body |-> "",
     refersTo |-> 0]

LastRecordId(w) == w.records[Len(w.records)].id

\* WarcHandler._flushLogEntries
flushLogEntries(w) ==
    [writeRecord(w, "urn:log", "resource", "log", NoHeaders)
        EXCEPT !.log = 0]

\* WarcHandler._writeLog, in the main thread
writeLog(w) ==
    LET w1 == [w EXCEPT !.log = @ + 1]
    IN  IF w1.log > maxLogSize THEN flushLogEntries(w1) ELSE w1

\* self.logger.debug / error: the line reaches _writeLog through
\* WarcHandlerConsumer when one is connected
Logger(w) == IF warcConnected THEN writeLog(w) ELSE w

\* WarcHandler._writeRequest
writeRequest(w, item) ==
    LET missing == item.requestBody = None
        w1 == IF missing THEN Logger(w) ELSE w
        payload == IF missing THEN "" ELSE item.requestBody.payload
    IN  writeRecord(w1, item.url, "request", payload,
            [NoHeaders EXCEPT
                !.reqId = item.id,
                !.truncated = IF missing THEN "unspecified" ELSE "",
                !.base64Body =
                    IF payload # ""
                    THEN Str(item.requestBody.base64Encoded) ELSE ""])

\* a _writeResponse that looks at the body before it asks for a redirect
BodyFirst_writeResponse(w, item, concurrentTo) ==
    LET w1 == [w EXCEPT !.bodyReads = @ \cup {item.serial}]
        noBody == item.body = None \/ item.isRedirect
        w2 == writeRecord(w1, item.url, "response",
                IF noBody THEN "" ELSE item.body.payload,
                [NoHeaders EXCEPT
                    !.concurrentTo = concurrentTo,
                    !.reqId = item.id,
                    !.truncated = IF noBody THEN "unspecified" ELSE "",
                    !.base64Body =
                        IF noBody THEN ""
                        ELSE Str(item.body.base64Encoded)])
    IN  IF item.resourceType = "Document"
        THEN [w2 EXCEPT !.documentRecords[item.url] = LastRecordId(w2)]
        ELSE w2

\* a _writeResponse that refers to the pair's own request id instead of the
\* request record
ReqIdAsConcurrentTo_writeResponse(w, item, concurrentTo) ==
    LET w1 == IF item.isRedirect THEN w
              ELSE [w EXCEPT !.bodyReads = @ \cup {item.serial}]
        noBody == item.isRedirect \/ item.body = None
        w2 == writeRecord(w1, item.url, "response",
                IF noBody THEN "" ELSE item.body.payload,
                [NoHeaders EXCEPT
                    !.concurrentTo = item.id,
                    !.reqId = item.id,
                    !.truncated = IF noBody THEN "unspecified" ELSE "",
                    !.base64Body =
                        IF noBody THEN ""
                        ELSE Str(item.body.base64Encoded)])
    IN  IF item.resourceType = "Document"
        THEN [w2 EXCEPT !.documentRecords[item.url] = LastRecordId(w2)]
        ELSE w2

\* WarcHandler._writeResponse: item.body is read only when item.isRedirect
\* is false
writeResponse(w, item, concurrentTo) ==
    LET w1 == IF item.isRedirect THEN w
              ELSE [w EXCEPT !.bodyReads = @ \cup {item.serial}]
        noBody == item.isRedirect \/ item.body = None
        w2 == writeRecord(w1, item.url, "response",
                IF noBody THEN "" ELSE item.body.payload,
                [NoHeaders EXCEPT
                    !.concurrentTo = concurrentTo,
                    !.reqId = item.id,
                    !.truncated = IF noBody THEN "unspecified" ELSE "",
                    !.base64Body =
                        IF noBody THEN ""
                        ELSE Str(item.body.base64Encoded)])
    IN  IF item.resourceType = "Document"
        THEN [w2 EXCEPT !.documentRecords[item.url] = LastRecordId(w2)]
        ELSE w2

\* WarcHandler._writeScript
writeScript(w, item) ==
    writeRecord(w, "urn:script", "metadata", "js", NoHeaders)

\* WarcHandler._writeItem
writeItem(w, item) ==
    IF item.failed THEN w
    ELSE LET w1 == writeRequest(w, item)
         IN  writeResponse(w1, item, LastRecordId(w1))

\* a conversion record that refers to the first document record of the URL
FirstDocument_writeConversion(w, item) ==
    LET docs == {k \in DOMAIN w.records :
                    /\ w.records[k].type = "response"
                    /\ w.records[k].uri = item.url}
        refersTo == IF docs = {} THEN 0
                    ELSE CHOOSE k \in docs : \A j \in docs : k <= j
        w1 == IF refersTo # 0 THEN w ELSE Logger(w)
    IN  writeRecord(w1, item.url, "conversion", "data",
            [NoHeaders EXCEPT !.refersTo = refersTo])

\* WarcHandler._writeDomSnapshot and _writeScreenshot, with _addRefersTo
writeConversion(w, item) ==
    LET refersTo == w.documentRecords[item.url]
        w1 == IF refersTo # 0 THEN w ELSE Logger(w)
    IN  writeRecord(w1, item.url, "conversion", "data",
            [NoHeaders EXCEPT !.refersTo = refersTo])

\* WarcHandler._writeControllerStart
writeControllerStart(w, item) ==
    LET w1 == writeRecord(w, "urn:warcinfo", "warcinfo", "json", NoHeaders)
    IN  [w1 EXCEPT !.warcinfoRecordId = LastRecordId(w1)]

\* WarcHandler.push
push(w, item) ==
    CASE item.kind = "Script" -> writeScript(w, item)
      [] item.kind = "Item" -> writeItem(w, item)
      [] item.kind \in {"DomSnapshotEvent", "ScreenshotEvent"}
            -> writeConversion(w, item)
      [] item.kind = "ControllerStart" -> writeControllerStart(w, item)
      [] OTHER -> Logger(w)

\* a call is noted with the records it wrote
Called(what, item) ==
    /\ ~warcExited
    /\ Len(warcCalls) < MaxCalls
    /\ warcCalls' = Append(warcCalls,
            [what |-> what, item |-> item,
             first |-> Len(warc.records) + 1, last |-> Len(warc'.records)])
    /\ UNCHANGED warcConnected
    /\ UNCHANGED notWarcVars

\* handler.push (item)
WarcPush(item) ==
    LET it == IF item.kind = "Item"
              THEN [serial |-> Len(warcCalls) + 1] @@ item
              ELSE item
    IN  /\ warc' = push(warc, it)
        /\ Called("push", it)
        /\ UNCHANGED warcExited

\* a line logged elsewhere in the program reaches the handler
WarcLog ==
    /\ warcConnected
    /\ warc' = writeLog(warc)
    /\ Called("log", None)
    /\ UNCHANGED warcExited

\* logger.connect (WarcHandlerConsumer (handler)), before anything is logged
WarcConnect ==
    /\ ~warcConnected /\ warcCalls = <<>>
    /\ warcConnected' = TRUE
    /\ UNCHANGED <<warc, warcExited, warcCalls>>
    /\ UNCHANGED notWarcVars

\* WarcHandler.__exit__
WarcExit ==
    /\ warc' = flushLogEntries(warc)
    /\ Called("exit", None)
    /\ warcExited' = TRUE

InitWarc ==
    /\ warc = [records |-> <<>>, log |-> 0,
               documentRecords |-> [u \in DocUrls |-> 0],
               warcinfoRecordId |-> 0, bodyReads |-> {}]
    /\ warcConnected = FALSE
    /\ warcExited = FALSE
    /\ warcCalls = <<>>

NextWarc ==
    \/ \E item \in WarcItems : WarcPush(item)
    \/ WarcLog
    \/ WarcConnect
    \/ WarcExit

(***************************************************************************)
(* behavior.py: Screenshot                                                 *)
(***************************************************************************)
\* Screenshot.maxDim
maxDim == 16 * 1024

min(a, b) == IF a < b THEN a ELSE b

\* max of a non-empty list
max(list) ==
    CHOOSE m \in {list[i] : i \in DOMAIN list} :
        \A i \in DOMAIN list : list[i] <= m

\* a band that is always as high as the texture allows
Full_clipHeight(height, y) == maxDim

\* the height of the clip at offset y: min (contentHeight - yoff, self.maxDim)
clipHeight(height, y) == min(height - y, maxDim)

\* yield self.script, then Runtime.evaluate answers with the heights of the
\* fixed full-screen elements
ShotEvaluate(result) ==
    /\ shotPc = "start"
    /\ shotOut' = Append(shotOut, [kind |-> "Script"])
    /\ shotResult' = result
    /\ shotPc' = "getLayoutMetrics"
    /\ UNCHANGED <<contentHeight, yoff>>
    /\ UNCHANGED notShotVars

\* Page.getLayoutMetrics answers; contentHeight is computed
ShotLayoutMetrics(contentSize) ==
    /\ shotPc = "getLayoutMetrics"
    /\ contentHeight' = max(shotResult \o <<contentSize.height>>)
    /\ shotPc' = "setDeviceMetricsOverride"
    /\ UNCHANGED <<shotResult, yoff, shotOut>>
    /\ UNCHANGED notShotVars

\* Emulation.setDeviceMetricsOverride and Page.getFrameTree answer; the loop
\* over range (0, contentHeight, self.maxDim) begins
ShotOverride ==
    /\ shotPc = "setDeviceMetricsOverride"
    /\ yoff' = 0
    /\ shotPc' = "loop"
    /\ UNCHANGED <<shotResult, contentHeight, shotOut>>
    /\ UNCHANGED notShotVars

\* one turn of the loop: Page.captureScreenshot answers with the picture of
\* the clip, which is yielded
ShotCapture ==
    /\ shotPc = "loop"
    /\ yoff < contentHeight
    /\ LET clip == [x |-> 0, y |-> yoff,
                    height |-> clipHeight(contentHeight, yoff)]
       IN  shotOut' = Append(shotOut,
                [kind |-> "ScreenshotEvent", yoff |-> yoff,
                 data |-> [y |-> clip.y, height |-> clip.height]])
    /\ yoff' = yoff + maxDim
    /\ UNCHANGED <<shotPc, shotResult, contentHeight>>
    /\ UNCHANGED notShotVars

\* the range is exhausted: Emulation.clearDeviceMetricsOverride
ShotClear ==
    /\ shotPc = "loop"
    /\ ~(yoff < contentHeight)
    /\ shotPc' = "done"
    /\ UNCHANGED <<shotResult, contentHeight, yoff, shotOut>>
    /\ UNCHANGED notShotVars

InitShot ==
    /\ shotPc = "start"
    /\ shotResult = <<>>
    /\ contentHeight = -1
    /\ yoff = 0
    /\ shotOut = <<>>

NextShot ==
    \/ \E result \in {<<>>} \cup {<<h>> : h \in Heights} :
            ShotEvaluate(result)
    \/ \E h \in Heights \cup {0} : ShotLayoutMetrics([height |-> h])
    \/ ShotOverride
    \/ ShotCapture
    \/ ShotClear

(***************************************************************************)
(* behavior.py: DomSnapshot, and html.py: ChromeTreeWalker.split           *)
(***************************************************************************)
\* yarl.URL (s), as far as onfinish reads it
URL(str) ==
    CASE str = "http://a/" -> [scheme |-> "http", rest |-> "//a/", fragment |-> ""]
      [] str = "http://a/#x" -> [scheme |-> "http", rest |-> "//a/", fragment |-> "x"]
      [] str = "https://b/" -> [scheme |-> "https", rest |-> "//b/", fragment |-> ""]
      [] OTHER -> [scheme |-> "about", rest |-> "blank", fragment |-> ""]

\* URL.with_fragment (None)
with_fragment_None(url) == [url EXCEPT !.fragment = ""]

\* a #document node with one IFRAME element per frame, as
\* DOM.getDocument (depth=-1, pierce=True) returns it
Document(url, frames) ==
    [nodeName |-> "#document", documentURL |-> url,
     children |-> <<[nodeName |-> "HTML",
                     children |-> [i \in DOMAIN frames |->
                        [nodeName |-> "IFRAME",
                         contentDocument |-> frames[i]]]]>>]

\* documents without frames, with at most one frame, and the pages: documents
\* with up to two frames of those
LeafDocuments == {Document(u, <<>>) : u \in DocumentUrls}

FrameDocuments ==
    LeafDocuments
        \cup {Document(u, <<d>>) : u \in DocumentUrls, d \in LeafDocuments}

Pages ==
    {Document(u, <<>>) : u \in DocumentUrls}
        \cup {Document(u, <<d>>) : u \in DocumentUrls, d \in FrameDocuments}
        \cup {Document(u, <<d, e>>) :
                u \in DocumentUrls, d \in FrameDocuments, e \in LeafDocuments}

\* node.get (key, default)
Get(node, key, default) ==
    IF key \in DOMAIN node THEN node[key] ELSE default

\* the inner function recurse of ChromeTreeWalker.split
RECURSIVE recurse(_)
RECURSIVE recurseAll(_)
recurse(node) ==
    LET contentDocument == Get(node, "contentDocument", None)
    IN  (IF contentDocument # None
         THEN <<contentDocument>> \o recurse(contentDocument)
         ELSE <<>>)
        \o recurseAll(Get(node, "children", <<>>))

\* for child in node.get ('children', []): yield from recurse (child)
recurseAll(nodes) ==
    IF nodes = <<>> THEN <<>>
    ELSE recurse(Head(nodes)) \o recurseAll(Tail(nodes))

\* ChromeTreeWalker.split
split(tree) ==
    (IF tree.nodeName = "#document" THEN <<tree>> ELSE <<>>) \o recurse(tree)

\* yield self.script, then Runtime.evaluate answers
DomEvaluate ==
    /\ domPc = "start"
    /\ domOut' = Append(domOut, [kind |-> "Script"])
    /\ domPc' = "getDocument"
    /\ UNCHANGED <<dom, domDocs, haveUrls>>
    /\ UNCHANGED notDomVars

\* getFormattedViewportMetrics and DOM.getDocument answer; the loop over
\* ChromeTreeWalker (dom['root']).split () begins
DomGetDocument(root) ==
    /\ domPc = "getDocument"
    /\ dom' = root
    /\ haveUrls' = {}
    /\ domDocs' = split(root)
    /\ domPc' = "loop"
    /\ UNCHANGED domOut
    /\ UNCHANGED notDomVars

\* one turn of the loop
DomLoop ==
    /\ domPc = "loop"
    /\ domDocs # <<>>
    /\ LET doc == Head(domDocs)
           url == URL(doc.documentURL)
       IN  IF url \in haveUrls
           THEN UNCHANGED <<haveUrls, domOut>>
           ELSE IF url.scheme \in {"http", "https"}
           THEN /\ haveUrls' = haveUrls \cup {url}
                /\ domOut' = Append(domOut,
                        [kind |-> "DomSnapshotEvent",
                         url |-> with_fragment_None(url)])
           ELSE UNCHANGED <<haveUrls, domOut>>
    /\ domDocs' = Tail(domDocs)
    /\ UNCHANGED <<domPc, dom>>
    /\ UNCHANGED notDomVars

\* split () is exhausted
DomDone ==
    /\ domPc = "loop"
    /\ domDocs = <<>>
    /\ domPc' = "done"
    /\ UNCHANGED <<dom, domDocs, haveUrls, domOut>>
    /\ UNCHANGED notDomVars

InitDom ==
    /\ domPc = "start"
    /\ dom = None
    /\ domDocs = <<>>
    /\ haveUrls = {}
    /\ domOut = <<>>

NextDom ==
    \/ DomEvaluate
    \/ \E root \in Pages : DomGetDocument(root)
    \/ DomLoop
    \/ DomDone

(***************************************************************************)
(* irc.py: RefCountEvent                                                   *)
(***************************************************************************)
\* an __enter__ that leaves the event as it is
NoClear_enter ==
    /\ count' = count + 1
    /\ UNCHANGED <<armed, event>>

\* RefCountEvent.__enter__
enter ==
    /\ count' = count + 1
    /\ event' = FALSE
    /\ UNCHANGED armed

\* RefCountEvent.__exit__
exit ==
    /\ count' = count - 1
    /\ event' = IF armed /\ count' = 0 THEN TRUE ELSE event
    /\ UNCHANGED armed

\* RefCountEvent.arm
arm ==
    /\ armed' = TRUE
    /\ event' = IF count = 0 THEN TRUE ELSE event
    /\ UNCHANGED count

\* an operation is made and noted
RefOp(op) ==
    /\ Len(refOps) < MaxOps
    /\ refOps' = Append(refOps, op)
    /\ UNCHANGED notRefVars

\* with event: ... is entered
RefEnter == enter /\ RefOp("enter")

\* the with block of a holder is left
RefExit == count > 0 /\ exit /\ RefOp("exit")

\* event.arm ()
RefArm == arm /\ RefOp("arm")

\* RefCountEvent.__init__
InitRef ==
    /\ armed = FALSE
    /\ count = 0
    /\ event = FALSE
    /\ refOps = <<>>

NextRef == RefEnter \/ RefExit \/ RefArm

(***************************************************************************)
(* html.py: StripTagFilter                                                 *)
(***************************************************************************)
\* names of elements with content, and of void elements, as the tree walker
\* reports them
ElementNames == {"a", "b", "B"}
VoidNames == {"br"}

\* the lists of tags a filter is made with
TagLists == {<<"b">>, <<"br">>, <<"B", "br">>}

\* str.lower on the names
lower(name) == IF name = "B" THEN "b" ELSE name

\* the tokens of an html5lib tree walker
Token(type, name) == [type |-> type, name |-> name]
Characters == Token("Characters", "")
Tokens ==
    {Token("StartTag", n) : n \in ElementNames}
        \cup {Token("EndTag", n) : n \in ElementNames}
        \cup {Token("EmptyTag", n) : n \in VoidNames}
        \cup {Characters}

\* StripTagFilter.__init__
StripTagFilter_init(tagList) ==
    /\ tags' = {lower(tagList[i]) : i \in DOMAIN tagList}

\* StripTagFilter.__iter__: the body of the loop for one token
StripTagFilter_iter(token) ==
    LET tokenType == token.type
        counted == IF /\ tokenType \in {"StartTag", "EmptyTag"}
                      /\ delete > 0 \/ lower(token.name) \in tags
                   THEN delete + 1
                   ELSE delete
    IN  /\ yielded' = IF counted = 0 THEN Append(yielded, token) ELSE yielded
        /\ delete' = IF tokenType = "EndTag" /\ counted > 0
                     THEN counted - 1
                     ELSE counted

\* StripTagFilter (source, tags)
StripNew(tagList) ==
    /\ stripPc = "new"
    /\ StripTagFilter_init(tagList)
    /\ stripPc' = "iter"
    /\ UNCHANGED <<tokens, open, delete, yielded, notStripVars>>

\* the tree walker yields its next token, an end tag for the innermost open
\* element only, and the filter handles it
StripToken(token) ==
    /\ stripPc = "iter"
    /\ Len(tokens) < MaxTokens
    /\ token.type = "EndTag"
         => open # <<>> /\ open[Len(open)] = token.name
    /\ tokens' = Append(tokens, token)
    /\ open' = IF token.type = "StartTag" THEN Append(open, token.name)
               ELSE IF token.type = "EndTag" THEN SubSeq(open, 1, Len(open) - 1)
               ELSE open
    /\ StripTagFilter_iter(token)
    /\ UNCHANGED <<stripPc, tags, notStripVars>>

InitStrip ==
    /\ stripPc = "new"
    /\ tags = {}
    /\ tokens = <<>>
    /\ open = <<>>
    /\ delete = 0
    /\ yielded = <<>>

NextStrip ==
    \/ \E tagList \in TagLists : StripNew(tagList)
    \/ \E token \in Tokens : StripToken(token)

(***************************************************************************)
(* controller.py: RecursiveController                                      *)
(*                                                                         *)
(* run is switched away from only at its awaits, asyncio.wait and          *)
(* asyncio.gather; the fetch tasks run while it is suspended there.        *)
(***************************************************************************)
\* the seed URLs and the values of concurrency a controller is made with
SeedUrls == {"http://a/", "http://a/#x"}
Concurrencies == {1, 2}

\* the links of one line of the command's output
LinkSets == {{"http://a/"}, {"https://b/"}, {"http://a/#x", "https://b/"},
             {"http://a/", "about:blank"}}

SCHEME_WHITELIST == {"http", "https"}

\* SetEntry (value, depth=depth): equal to another when the values are equal
SetEntry(value, depth) == [value |-> value, depth |-> depth]

\* the values of a set of SetEntry
Values(entries) == {e.value : e \in entries}

\* set.update and set.difference_update on sets of SetEntry
update(entries, other) ==
    entries \cup {e \in other : e.value \notin Values(entries)}
difference_update(entries, other) ==
    {e \in entries : e.value \notin Values(other)}

\* DepthLimit.__call__
DepthLimit(maxdepth, urls) == {u \in urls : u.depth <= maxdepth}

\* a loop that waits only when nothing is pending
NothingPending_MustWait(run, pend) == pend = {}

\* run: the test before asyncio.wait
MustWait(run, pend) == Cardinality(run) >= concurrency \/ pend = {}

\* RecursiveController (url, ..., policy=DepthLimit (MaxDepth),
\* concurrency=c).run () up to its loop
RecStart(url, c) ==
    /\ recPc = "new"
    /\ concurrency' = c
    /\ have' = {}
    /\ pending' = {SetEntry(URL(url), 0)}
    /\ recPc' = "loop"
    /\ UNCHANGED <<fetching, fetches, notRecVars>>

\* run: one turn of while self.pending, without an await up to asyncio.wait
RecLoop ==
    /\ recPc = "loop"
    /\ pending # {}
    /\ \E u \in pending :
        /\ pending' = pending \ {u}
        /\ have' = update(have, {u})
        /\ fetches' = Append(fetches, [entry |-> u, pc |-> "started",
                                       lines |-> 0])
        /\ fetching' = fetching \cup {Len(fetches) + 1}
    /\ recPc' = IF MustWait(fetching', pending') THEN "wait" ELSE "loop"
    /\ UNCHANGED <<concurrency, notRecVars>>

\* run: self.pending is empty, the loop is left for the finally clause
RecLeavesLoop ==
    /\ recPc = "loop"
    /\ pending = {}
    /\ recPc' = "finally"
    /\ UNCHANGED <<concurrency, have, pending, fetching, fetches, notRecVars>>

\* the tasks of self.running that are done
Done == {t \in fetching : fetches[t].pc = "done"}

\* run: asyncio.wait (self.running, return_when=FIRST_COMPLETED) returns
RecWaitReturns ==
    /\ recPc = "wait"
    /\ Done # {}
    /\ fetching' = fetching \ Done
    /\ recPc' = "loop"
    /\ UNCHANGED <<concurrency, have, pending, fetches, notRecVars>>

\* run: asyncio.gather (*self.running) returns, run returns
RecGather ==
    /\ recPc = "finally"
    /\ Done = fetching
    /\ fetching' = {}
    /\ recPc' = "returned"
    /\ UNCHANGED <<concurrency, have, pending, fetches, notRecVars>>

\* a fetch task can run: run is suspended
Suspended == recPc \in {"wait", "finally"}

\* fetch: the task begins; a URL whose scheme is not whitelisted is ignored,
\* for another one the command is started
FetchBegin(t) ==
    /\ Suspended
    /\ fetches[t].pc = "started"
    /\ fetches' = [fetches EXCEPT ![t].pc =
                    IF fetches[t].entry.value.scheme \notin SCHEME_WHITELIST
                    THEN "done" ELSE "reading"]
    /\ UNCHANGED <<recPc, concurrency, have, pending, fetching, notRecVars>>

\* fetch: the command prints a line with the links of the page
FetchLinks(t, found) ==
    /\ Suspended
    /\ fetches[t].pc = "reading"
    /\ fetches[t].lines < MaxLines
    /\ LET depth == fetches[t].entry.depth
           links == DepthLimit(MaxDepth,
                      {SetEntry(with_fragment_None(URL(x)), depth + 1) :
                            x \in found})
       IN  pending' = update(pending, difference_update(links, have))
    /\ fetches' = [fetches EXCEPT ![t].lines = @ + 1]
    /\ UNCHANGED <<recPc, concurrency, have, fetching, notRecVars>>

\* fetch: the output of the command ends, the command exits with 0 and the
\* task is done
FetchDone(t) ==
    /\ Suspended
    /\ fetches[t].pc = "reading"
    /\ fetches' = [fetches EXCEPT ![t].pc = "done"]
    /\ UNCHANGED <<recPc, concurrency, have, pending, fetching, notRecVars>>

InitRec ==
    /\ recPc = "new"
    /\ concurrency = 1
    /\ have = {}
    /\ pending = {}
    /\ fetching = {}
    /\ fetches = <<>>

NextRec ==
    \/ \E url \in SeedUrls, c \in Concurrencies : RecStart(url, c)
    \/ RecLoop
    \/ RecLeavesLoop
    \/ RecWaitReturns
    \/ RecGather
    \/ \E t \in DOMAIN fetches : FetchBegin(t)
    \/ \E t \in DOMAIN fetches, found \in LinkSets : FetchLinks(t, found)
    \/ \E t \in DOMAIN fetches : FetchDone(t)

(***************************************************************************)
(* irc.py: Chromebot.handleArchive and handleAbort                         *)
(*                                                                         *)
(* Each job is one task in handleArchive; it is switched away from at the  *)
(* semaphore, at create_subprocess_exec, at readline and at process.wait.  *)
(***************************************************************************)
\* Chromebot (..., processLimit=1)
processLimit == 1

\* the command a <url>: the Job is made and queued, handleArchive reaches
\* async with self.processLimit
HandleArchive(j) ==
    /\ jobPc[j] = "none"
    /\ status' = [status EXCEPT ![j] = "pending"]
    /\ process' = [process EXCEPT ![j] = "None"]
    /\ jobPc' = [jobPc EXCEPT ![j] = "acquire"]
    /\ UNCHANGED <<terminated, semaphore, notBotVars>>

\* handleArchive: the epilogue after the async with
Finish(st) == IF st = "running" THEN "finished" ELSE st

\* handleArchive: the semaphore is acquired; a job that is still pending
\* starts its command, another one leaves the block at once
Acquire(j) ==
    /\ jobPc[j] = "acquire"
    /\ semaphore > 0
    /\ IF status[j] = "pending"
       THEN /\ semaphore' = semaphore - 1
            /\ jobPc' = [jobPc EXCEPT ![j] = "spawn"]
            /\ UNCHANGED status
       ELSE /\ jobPc' = [jobPc EXCEPT ![j] = "done"]
            /\ status' = [status EXCEPT ![j] = Finish(@)]
            /\ UNCHANGED semaphore
    /\ UNCHANGED <<process, terminated, notBotVars>>

\* handleArchive: create_subprocess_exec returns, j.process is set
Spawned(j) ==
    /\ jobPc[j] = "spawn"
    /\ process' = [process EXCEPT ![j] = "running"]
    /\ jobPc' = [jobPc EXCEPT ![j] = "readline"]
    /\ UNCHANGED <<status, terminated, semaphore, notBotVars>>

\* handleArchive: readline returns a message of the command; the first one
\* marks a pending job running
ReadLine(j) ==
    /\ jobPc[j] = "readline"
    /\ status' = [status EXCEPT ![j] = IF @ = "pending" THEN "running" ELSE @]
    /\ UNCHANGED <<jobPc, process, terminated, semaphore, notBotVars>>

\* handleArchive: the output of the command has ended, process.wait () is
\* awaited
ReadEof(j) ==
    /\ jobPc[j] = "readline"
    /\ process[j] = "exited"
    /\ jobPc' = [jobPc EXCEPT ![j] = "wait"]
    /\ UNCHANGED <<status, process, terminated, semaphore, notBotVars>>

\* handleArchive: process.wait () returns, the semaphore is released and a
\* running job is marked finished
Waited(j) ==
    /\ jobPc[j] = "wait"
    /\ semaphore' = semaphore + 1
    /\ status' = [status EXCEPT ![j] = Finish(@)]
    /\ jobPc' = [jobPc EXCEPT ![j] = "done"]
    /\ UNCHANGED <<process, terminated, notBotVars>>

\* handleAbort for a job that is pending or running
handleAbort(j) ==
    /\ status' = [status EXCEPT ![j] = "aborted"]
    /\ terminated' = [terminated EXCEPT ![j] = @ \/ process[j] = "running"]

\* the command abort <id> for a job that exists
HandleAbort(j) ==
    /\ jobPc[j] # "none"
    /\ IF status[j] \notin {"pending", "running"}
       THEN UNCHANGED <<status, terminated>>
       ELSE handleAbort(j)
    /\ UNCHANGED <<jobPc, process, semaphore, notBotVars>>

\* the command of a job exits, by itself or because it was terminated
ProcessExits(j) ==
    /\ process[j] = "running"
    /\ process' = [process EXCEPT ![j] = "exited"]
    /\ UNCHANGED <<jobPc, status, terminated, semaphore, notBotVars>>

InitBot ==
    /\ jobPc = [j \in Jobs |-> "none"]
    /\ status = [j \in Jobs |-> "undefined"]
    /\ process = [j \in Jobs |-> "None"]
    /\ terminated = [j \in Jobs |-> FALSE]
    /\ semaphore = processLimit

NextBot ==
    \/ \E j \in Jobs : HandleArchive(j)
    \/ \E j \in Jobs : Acquire(j)
    \/ \E j \in Jobs : Spawned(j)
    \/ \E j \in Jobs : ReadLine(j)
    \/ \E j \in Jobs : ReadEof(j)
    \/ \E j \in Jobs : Waited(j)
    \/ \E j \in Jobs : HandleAbort(j)
    \/ \E j \in Jobs : ProcessExits(j)

InitExt ==
    /\ InitDialog /\ InitWarc /\ InitShot /\ InitDom /\ InitRef /\ InitStrip
    /\ InitRec /\ InitBot

Init ==
    /\ InitLoader /\ InitTab /\ InitCtl /\ InitProc /\ InitClock /\ InitHooks
    /\ InitExt

Spec == Init /\ [][Next]_vars

SpecTab == Init /\ [][NextTab]_vars

\* the event loop runs a task that is ready: the receive task when a frame or
\* the end of the connection is there to read, the getter when the queue holds
\* an item
SpecTabFair == SpecTab /\ WF_vars(RecvClosed) /\ WF_vars(GetWake)

SpecCtl == Init /\ [][NextCtl]_vars

\* DevTools calls are answered, the event loop runs every task that is ready
\* and time goes by
SpecCtlFair ==
    /\ SpecCtl
    /\ WF_vars(ConfigReply) /\ WF_vars(PushControllerStart)
    /\ WF_vars(\E ok \in BOOLEAN : NavigateReturns(ok))
    /\ WF_vars(WaitReturns) /\ WF_vars(BehaviorStop)
    /\ WF_vars(StopLoadingReply) /\ WF_vars(BehaviorFinish)
    /\ WF_vars(Return) /\ WF_vars(TimeoutFires) /\ WF_vars(IdleWaitTurn)
    /\ WF_vars(Tick)
    /\ WF_vars(SiteLoaderExit) /\ WF_vars(ProcessTerminate)
    /\ WF_vars(ProcessWaited)

\* run from its call on: Process.__aenter__, the body, the two __aexit__
InitRun ==
    /\ InitLoader /\ InitTab /\ InitStartup /\ InitClock /\ InitHooks
    /\ InitExt

InitIdle == InitLoader /\ InitTab /\ InitBusy /\ InitHooks /\ InitExt

\* the handler chain and the hooks, step by step
InitChain == Init /\ tracker.elapsed = 0

SpecHooks == InitChain /\ [][NextHooks]_vars

\* wait on the clock
SpecIdle == InitIdle /\ [][NextIdle]_vars

\* the event loop resumes the coroutine and time goes by
SpecIdleFair == SpecIdle /\ WF_vars(WaitResumed) /\ WF_vars(ClockTick)

SpecProc == InitRun /\ [][NextProc]_vars

\* the jobs of a Chromebot
SpecBot == InitChain /\ [][NextBot]_vars

\* a RecursiveController and its fetch tasks
SpecRec == InitChain /\ [][NextRec]_vars

\* a StripTagFilter over the tokens of a tree walker
SpecStrip == InitChain /\ [][NextStrip]_vars

\* a RefCountEvent and its holders
SpecRef == InitChain /\ [][NextRef]_vars

\* the DOM snapshot of a page
SpecDom == InitChain /\ [][NextDom]_vars

\* the screenshot of a page
SpecShot == InitChain /\ [][NextShot]_vars

\* the WARC writer
SpecWarc == InitChain /\ [][NextWarc]_vars

\* the dialogs of a page
SpecDialog == InitChain /\ [][NextDialog]_vars

\* the browser delivers its events and reads the calls sent to it
SpecDialogFair ==
    SpecDialog /\ WF_vars(PageJavascriptDialogOpening)
               /\ WF_vars(BrowserHandlesDialog)

(***************************************************************************)
(* Claims about the SiteLoader, checked under Spec                         *)
(***************************************************************************)
\* the calls of the callbacks that handed over a pair of request id
EmittedFor(id) ==
    {i \in DOMAIN emitted :
        /\ emitted[i].item # None
        /\ emitted[i].item.chromeRequest.requestId = id}

\* Item objects handed to a callback so far
EmittedSerials(em) ==
    {em[i].item.serial : i \in {j \in DOMAIN em : em[j].item # None}}

\* C1: for every request id whose events all carried http(s) URLs, once its
\* last request has finished or failed the number of pairs emitted for it is
\* 1 plus the number of its requestWillBeSent events with a redirectResponse.
C1_PairsPerRequestId ==
    \A id \in ReqIds :
        (chrome[id] = "closed" /\ onlyHttp[id])
            => Cardinality(EmittedFor(id)) = 1 + redirects[id]

\* C2: no Item object is handed to the callbacks more than once, and an Item
\* that is not a redirect pair is handed over only while Network.loadingFinished
\* or Network.loadingFailed of its own request id is handled.
C2_EmittedOnceOnFinish ==
    /\ \A i, j \in DOMAIN emitted :
          (i # j /\ emitted[i].item # None /\ emitted[j].item # None)
              => emitted[i].item.serial # emitted[j].item.serial
    /\ \A i \in DOMAIN emitted :
          (emitted[i].item # None /\ ~emitted[i].redirect)
              => /\ emitted[i].method \in {"Network.loadingFinished",
                                           "Network.loadingFailed"}
                 /\ emitted[i].requestId
                        = emitted[i].item.chromeRequest.requestId

\* a redirect pair and later the final pair of the same id have been emitted
C2_Witness ==
    \E i, j \in DOMAIN emitted :
        /\ i < j
        /\ emitted[i].redirect
        /\ emitted[j].item # None /\ ~emitted[j].redirect
        /\ emitted[j].callback = "loadingFinished"
        /\ emitted[i].item.chromeRequest.requestId
                = emitted[j].item.chromeRequest.requestId

\* a requestWillBeSent with a redirectResponse is handled for an id in flight
RedirectStep(id) ==
    /\ redirects'[id] = redirects[id] + 1
    /\ requests[id] # None

\* the pair in flight is emitted with the redirect response, and only it; a
\* new pair for the new request is in flight under the id
FoldedAndReopened(id) ==
    /\ Len(emitted') = Len(emitted) + 1
    /\ SubSeq(emitted', 1, Len(emitted)) = emitted
    /\ LET e == emitted'[Len(emitted')]
       IN  /\ e.callback = "loadingFinished" /\ e.redirect
           /\ e.item.serial = requests[id].serial
           /\ e.item.chromeRequest = requests[id].chromeRequest
           /\ e.item.chromeResponse # None
           /\ e.item.chromeResponse.response
                    = [url |-> chromeUrl[id], status |-> 301]
    /\ requests'[id] # None
    /\ requests'[id].serial \notin EmittedSerials(emitted')
    /\ requests'[id].chromeRequest.request.url = chromeUrl'[id]
    /\ requests'[id].chromeResponse = None

\* C3 as stated: whenever requestWillBeSent with a redirectResponse arrives
\* for an id in flight, the existing pair is emitted at once with the
\* redirect response and its original request, before anything of the
\* follow-up request, and a fresh pair is then in flight under the id.
C3_RedirectFoldsPair ==
    [][\A id \in ReqIds : RedirectStep(id) => FoldedAndReopened(id)]_vars

\* C3 as amended: the same, when the URL of the follow-up request is http(s).
C3_HttpRedirectFoldsPair ==
    [][\A id \in ReqIds :
          (RedirectStep(id)
             /\ urlsplit(chromeUrl'[id]).scheme \in allowedSchemes)
          => FoldedAndReopened(id)]_vars

\* a redirect pair is the last thing emitted and its follow-up is in flight
C3_Witness ==
    \E id \in ReqIds :
        /\ redirects[id] > 0
        /\ emitted # <<>>
        /\ emitted[Len(emitted)].redirect
        /\ emitted[Len(emitted)].requestId = id
        /\ requests[id] # None
        /\ requests[id].serial \notin EmittedSerials(emitted)
        /\ requests[id].chromeRequest.request.url = chromeUrl[id]

(***************************************************************************)
(* Claims about the Tab, checked under SpecTab and SpecTabFair             *)
(***************************************************************************)
Ended(c) == callers[c].pc = "done"

\* C4: once the receive task has detected a crash (a receive or parse
\* failure, or Inspector.targetCrashed), every call that was outstanding at
\* that moment and is not cancelled ends by raising Crashed, and every call
\* and every get started afterwards raises Crashed, the call without having
\* taken a message id or sent anything.
C4_CrashFailsEverything ==
    /\ \A c \in Callers :
         (Ended(c) /\ callHist[c].atCrash /\ callers[c].outcome # "Cancelled")
            => callers[c].outcome = "Crashed"
    /\ \A c \in Callers :
         (Ended(c) /\ callHist[c].afterCrash)
            => /\ callers[c].outcome = "Crashed"
               /\ callers[c].msgid = 0
    /\ (getter.pc = "done" /\ getHist.afterCrash) => getter.outcome = "Crashed"

\* what a call can end with when it ends with a reply
ReplyValues == Results \cup {errorMap(code) : code \in ErrorCodes}

\* a reply is read whose id has no transaction
StaleReplyStep ==
    /\ answered' # answered
    /\ (answered' \ answered) \cap DOMAIN transactions = {}

\* no call ends with a reply that was not the reply to its own message
OwnReplyOnly ==
    \A c \in Callers :
        (Ended(c) /\ callers[c].outcome \in ReplyValues)
            => callers[c].outcome = callHist[c].reply

\* a stale reply changes nothing of the tab
StaleReplyIgnored ==
    StaleReplyStep => UNCHANGED <<msgid, crashed, transactions, queue,
                                  recvHandle, callers, getter>>

\* C5 as stated: every call whose reply was read while it was outstanding,
\* and that is not cancelled, ends with exactly that reply; no call ends with
\* the reply to another message; a reply that matches no transaction changes
\* no state.
C5_ReplyReachesItsCaller ==
    /\ [](\A c \in Callers :
            (Ended(c) /\ callHist[c].reply # ""
                /\ callers[c].outcome # "Cancelled")
                => callers[c].outcome = callHist[c].reply)
    /\ []OwnReplyOnly
    /\ [][StaleReplyIgnored]_vars

\* C5: every call whose reply was read while it was outstanding, that is not
\* cancelled and that did not see a crash detected between the reply and its
\* resumption, ends with exactly that reply; no call ends with the reply to
\* another message; a reply that matches no transaction changes no state.
C5_ReplyReachesItsCallerUnlessCrashed ==
    /\ [](\A c \in Callers :
            (Ended(c) /\ callHist[c].reply # ""
                /\ callers[c].outcome # "Cancelled"
                /\ ~callHist[c].crashAfterReply)
                => callers[c].outcome = callHist[c].reply)
    /\ []OwnReplyOnly
    /\ [][StaleReplyIgnored]_vars

\* the second call has ended with its reply while the first, started before
\* it, still waits for its own
C5_Witness ==
    /\ callers[1].pc = "wait"
    /\ callHist[1].reply = ""
    /\ Ended(2)
    /\ callers[2].outcome \in ReplyValues
    /\ callers[2].outcome = callHist[2].reply

\* C6: the message ids handed out are strictly increasing, and every
\* outstanding call holds an id below the counter with its transaction
\* registered, which it shares with no other outstanding call.
C6_IdsIncreaseAndAreUnique ==
    /\ \A i, j \in 1..Len(issued) : i < j => issued[i] < issued[j]
    /\ \A c \in Callers :
         Outstanding(c) => /\ callers[c].msgid \in DOMAIN transactions
                           /\ callers[c].msgid < msgid
    /\ \A c, d \in Callers :
         (Outstanding(c) /\ Outstanding(d) /\ c # d)
            => callers[c].msgid # callers[d].msgid

\* two calls are outstanding at once
C6_Witness ==
    /\ Len(issued) = 2
    /\ \A c \in Callers : Outstanding(c)

\* C7: when every call that was started has returned or raised, the
\* transactions map is empty.
C7_NoTransactionLeft ==
    (\A c \in Callers : ~Outstanding(c)) => DOMAIN transactions = {}

\* C8: a get that is blocked on an empty queue when the receive task detects
\* the crash eventually raises Crashed, and a get that is blocked when the
\* connection is lost does not stay blocked.
C8_BlockedGetRaisesCrashed ==
    /\ getHist.atCrash ~> (getter.pc = "done" /\ getter.outcome = "Crashed")
    /\ (getter.pc = "blocked" /\ ~wsOpen) ~> (getter.pc = "done")

\* the get that was blocked at the crash has raised Crashed
C8_Witness ==
    /\ getHist.atCrash
    /\ getter.pc = "done"
    /\ getter.outcome = "Crashed"

(***************************************************************************)
(* Claims about the controller, checked under SpecCtl and SpecCtlFair      *)
(***************************************************************************)
\* C9: the first item pushed to every handler is ControllerStart.
C9_ControllerStartFirst ==
    \A h \in Handlers : firstPushed[h] \in {"", "ControllerStart"}

\* run resumes from asyncio.wait and leaves the loop
LeavesWaiting == ctlPc = "waiting" /\ ctlPc' # "waiting"

\* the timeout branch: idleProc is cancelled and STOPPING is next
TimeoutBranch ==
    /\ ctlPc' = "stop"
    /\ exitBy' = "timeout"
    /\ idleProc'.pc \in {"cancelled", "done"}

Ended_run == ctlPc \in {"returned", "raised"}

RunEnded == ctlPc \in {"returned", "raised"}

\* a task that no longer runs: never started, finished or cancelled
Stopped(task) == task.pc \in {"none", "done", "cancelled"}

\* C11: when the push of a handler has raised in the drain task, run ends by
\* raising that exception, never by returning and never with another
\* exception, and the idle task and the timeout task are no longer running.
C11_HandlerExceptionEndsRun ==
    (handle = "failed" /\ RunEnded)
        => /\ ctlPc = "raised"
           /\ exitBy # "NavigateError"
           /\ Stopped(idleProc)
           /\ Stopped(timeoutProc)

\* C12: once run has raised NavigateError no item is pushed to a handler and
\* no hook of a behavior is run (a hook shows by the Script it yields).
C12_NothingAfterNavigateError ==
    exitBy = "NavigateError" => afterEnd = {}

\* run is over: the async with statement has been left, by the __aexit__ of
\* Process or by the exception of its __aenter__
RunOver == RunEnded /\ procPc \in {"exited", "raised"}

\* C13: however run ends, by its return, by NavigateError, by the exception
\* of a handler, by a cancellation or because the port of Chrome was not
\* found, the child process has been terminated and waited for.
C13_ChildReaped ==
    RunOver => child = "reaped"

(***************************************************************************)
(* Claims about IdleStateTracker                                           *)
(***************************************************************************)
\* the items that are no PageIdle
OtherItems == {ControllerStart, FrameNavigated, RequestResponsePair,
               BehaviorEvent}

\* idle.wait returns in this step
WaitReturnsNow == idleProc.pc # "done" /\ idleProc'.pc = "done"

\* C14: idle.wait (t) returns only when the last PageIdle pushed was true, or
\* none was pushed, and at least t has passed since the last PageIdle (true),
\* or since the tracker was made; and the push of an item that is no PageIdle
\* leaves the tracker as it is.
C14_WaitReturnsOnlyWhenIdle ==
    [][/\ WaitReturnsNow
            => tracker.idle /\ tracker.elapsed >= idleProc'.timeout
       /\ \A item \in OtherItems : IdleStateTracker_push(item, tracker) = tracker
      ]_vars

\* wait has returned after the page was busy in between
C14_Witness ==
    /\ idleProc.pc = "done"
    /\ idleProc.timeout = idleTimeout
    /\ firstPushed["idle"] = "PageIdle"

\* wait has been called
WaitCalled == idleProc # NoTask

\* C15: when the page becomes idle at time 0 and stays idle, wait (t) returns,
\* no earlier than t and no later than one scheduling tick after t, whenever
\* in [0, t] it was called and whether or not the tracker was busy then.
C15_WaitReturnsAtT ==
    /\ [](retAt # -1 => /\ idleProc.timeout <= retAt
                        /\ retAt <= idleProc.timeout + 1)
    /\ ((WaitCalled /\ idleAt0) ~> retAt # -1)

\* the longest wait was called some time after the page became idle and has
\* returned one tick late
C15_Witness ==
    /\ retAt = MaxWait + 1
    /\ idleProc.timeout = MaxWait
    /\ tracker.idle

(***************************************************************************)
(* Claims about the handler chain and the hooks, checked under SpecHooks   *)
(***************************************************************************)
\* the places of log where a hook of phase is called
HooksOf(log, phase) ==
    {i \in DOMAIN log : log[i].ev = "hook" /\ log[i].phase = phase}

\* a FrameNavigated was given to processItem
NavigatedSeen(log) ==
    \E i \in DOMAIN log : log[i].ev = "push" /\ log[i].item.kind = "FrameNavigated"

\* C16: an onstop or onfinish hook is called only when an onload hook was
\* called before in the run; with no FrameNavigated processed, neither phase
\* calls a hook.
C16_StopFinishOnlyAfterLoad ==
    [][\A phase \in {"stop", "finish"} :
          /\ HooksOf(hlog'["run"], phase) # HooksOf(hlog["run"], phase)
                => HooksOf(hlog["drain"], "load") # {}
          /\ ~NavigatedSeen(hlog'["drain"])
                => HooksOf(hlog'["run"], phase) = {}
          /\ HooksOf(hlog'["drain"], phase) = {}
      ]_vars

\* the onstop and the onfinish hooks have been called
C16_Witness ==
    /\ HooksOf(hlog["run"], "stop") # {}
    /\ HooksOf(hlog["run"], "finish") # {}

\* the FrameNavigated items given to processItem
NavsPushed(log) ==
    {log[i].item : i \in {j \in DOMAIN log :
        log[j].ev = "push" /\ log[j].item.kind = "FrameNavigated"}}

\* the place of the injector among the handlers
InjectorAt == CHOOSE j \in DOMAIN HandlerOrder : HandlerOrder[j] = "behavior"

\* the places of log where e is
At(log, e) == {i \in DOMAIN log : log[i] = e}

\* e is in log before place i
Earlier(log, e, i) == \E k \in At(log, e) : k < i

\* the onload hook of behavior b for nav is called
LoadHook(nav, b) == Ev("hook", "", nav, b, "load", "")
LoadHookEnd(nav, b) == Ev("hookEnd", "", nav, b, "load", "")

\* the FrameNavigated has been pushed to every handler
PushedThrough(log, nav) == At(log, PushedEv("behavior", nav)) # {}

\* the items the onload hooks for nav have yielded, by their place in log
YieldedFor(log, nav) ==
    {i \in DOMAIN log : /\ log[i].ev = "yield"
                        /\ log[i].phase = "load"
                        /\ log[i].item.n = nav.n}

\* C17: for every FrameNavigated pushed through the chain of handlers the
\* onload hook of every enabled behavior is called exactly once, in the order
\* of the behaviors, and only after the FrameNavigated was pushed to the
\* handlers before the injector; and what these hooks yield is pushed to
\* every handler, after that handler was given the FrameNavigated.
C17_OnloadOncePerNavigation ==
    LET log == hlog["drain"]
    IN  \A nav \in NavsPushed(log) :
          /\ \A b \in DOMAIN Behaviors :
                /\ Cardinality(At(log, LoadHook(nav, b))) <= 1
                /\ PushedThrough(log, nav)
                     => /\ Cardinality(At(log, LoadHook(nav, b))) = 1
                        /\ At(log, LoadHookEnd(nav, b)) # {}
                /\ \A i \in At(log, LoadHook(nav, b)) :
                     /\ \A j \in 1..(InjectorAt - 1) :
                          Earlier(log, PushedEv(HandlerOrder[j], nav), i)
                     /\ \A c \in 1..(b - 1) :
                          Earlier(log, LoadHookEnd(nav, c), i)
          /\ \A i \in YieldedFor(log, nav) :
                \A j \in DOMAIN HandlerOrder :
                   LET h == HandlerOrder[j]
                   IN  /\ \A k \in At(log, PushEv(h, log[i].item)) :
                            k > i /\ Earlier(log, PushEv(h, nav), k)
                       /\ \A e \in At(log, LoadHookEnd(nav, log[i].b)) :
                            Earlier(log, PushedEv(h, log[i].item), e)

\* two FrameNavigated have been pushed through the chain
C17_Witness ==
    \E n1, n2 \in NavsPushed(hlog["drain"]) :
        /\ n1 # n2
        /\ PushedThrough(hlog["drain"], n1)
        /\ PushedThrough(hlog["drain"], n2)

\* the calls of the push of handler h by task T that have not returned
InProgress(T, h) ==
    Cardinality({i \in DOMAIN hlog[T] :
                    hlog[T][i].ev = "push" /\ hlog[T][i].h = h})
  - Cardinality({i \in DOMAIN hlog[T] :
                    hlog[T][i].ev = "pushed" /\ hlog[T][i].h = h})

\* C18: at no time are two calls of push on the same handler under way,
\* whichever of the drain task and the task of run made them.
C18_OnePushAtATime ==
    \A j \in DOMAIN HandlerOrder :
        InProgress("drain", HandlerOrder[j]) + InProgress("run", HandlerOrder[j]) <= 1

\* the places of log where a hook sends Runtime.evaluate
EvaluateSent(log) ==
    {i \in DOMAIN log : log[i].ev = "sent" /\ log[i].m = "Runtime.evaluate"}

\* C19: when a hook sends Runtime.evaluate for its script, the Script it
\* yielded has been pushed to every handler, and every push has returned.
C19_ScriptPushedBeforeEvaluate ==
    \A T \in Tasks :
        \A i \in EvaluateSent(hlog[T]) :
            \A j \in DOMAIN HandlerOrder :
                Earlier(hlog[T],
                        PushedEv(HandlerOrder[j],
                                 Mk(BehaviorEvent, hlog[T][i].item.n,
                                    hlog[T][i].b, hlog[T][i].phase)),
                        i)

\* an onload hook and an onfinish hook have sent Runtime.evaluate
C19_Witness ==
    /\ EvaluateSent(hlog["drain"]) # {}
    /\ EvaluateSent(hlog["run"]) # {}

\* the places of log where tab.Page.stopLoading is sent
StopLoadingAt(log) ==
    {i \in DOMAIN log : log[i].ev = "sent" /\ log[i].m = "Page.stopLoading"}

\* the places of log where the hook of phase of behavior b begins, and ends
HookAt(log, phase, b) ==
    {i \in DOMAIN log :
        log[i].ev = "hook" /\ log[i].phase = phase /\ log[i].b = b}
HookEndAt(log, phase, b) ==
    {i \in DOMAIN log :
        log[i].ev = "hookEnd" /\ log[i].phase = phase /\ log[i].b = b}

\* the places after i where the hook that is at place i of log goes on: its
\* next yield, its next call or its end
GoesOn(log, i) ==
    {k \in DOMAIN log :
        /\ k > i
        /\ log[k].ev \in {"yield", "sent", "hookEnd"}
        /\ log[k].b = log[i].b
        /\ log[k].phase = log[i].phase}

\* C20: in a run that reaches STOPPING every onstop hook has ended before
\* Page.stopLoading is sent, and Page.stopLoading is sent before an onfinish
\* hook begins; in each of the two phases the hooks are called once, one
\* behavior after the other in the order of the behaviors, and an item a hook
\* yields is pushed to every handler before the hook goes on.
C20_StopThenStopLoadingThenFinish ==
    LET log == hlog["run"]
    IN  /\ Cardinality(StopLoadingAt(log)) <= 1
        /\ \A s \in StopLoadingAt(log) : \A b \in DOMAIN Behaviors :
              /\ \A i \in HookAt(log, "stop", b) :
                    \E e \in HookEndAt(log, "stop", b) : i < e /\ e < s
              /\ HookAt(log, "stop", 1) # {} => HookAt(log, "stop", b) # {}
        /\ \A b \in DOMAIN Behaviors :
              /\ HookAt(log, "stop", b) # {} => ctlPc # "waiting"
              /\ \A i \in HookAt(log, "finish", b) :
                    \E s \in StopLoadingAt(log) : s < i
        /\ \A phase \in {"stop", "finish"} : \A b \in DOMAIN Behaviors :
              /\ Cardinality(HookAt(log, phase, b)) <= 1
              /\ \A i \in HookAt(log, phase, b) : \A c \in 1..(b - 1) :
                    \E e \in HookEndAt(log, phase, c) : e < i
        /\ \A i \in DOMAIN log :
              log[i].ev = "yield"
                => \A k \in GoesOn(log, i) : \A j \in DOMAIN HandlerOrder :
                      \E d \in At(log, PushedEv(HandlerOrder[j], log[i].item)) :
                          i < d /\ d < k

\* the run has gone through both phases with their hooks
C20_Witness ==
    /\ ctlPc = "wait_for"
    /\ HookEndAt(hlog["run"], "stop", 1) # {}
    /\ HookEndAt(hlog["run"], "finish", 2) # {}
    /\ \E i \in DOMAIN hlog["run"] :
          hlog["run"][i].ev = "yield" /\ hlog["run"][i].item.kind = "ExtractLinksEvent"

(***************************************************************************)
(* C21                                                                     *)
(***************************************************************************)
\* the browser announces a request for id whose URL is not http(s)
OtherSchemeRequest(id) ==
    /\ nEvents' = nEvents + 1
    /\ chrome'[id] = "requested"
    /\ chrome[id] = "idle" \/ chromeUrl'[id] # chromeUrl[id]
              \/ redirects'[id] # redirects[id]
    /\ urlsplit(chromeUrl'[id]).scheme \notin allowedSchemes

\* the URLs a pair carries: of its request and, if attached, of its response
HttpOnly(item) ==
    /\ urlsplit(item.chromeRequest.request.url).scheme \in allowedSchemes
    /\ item.chromeResponse # None
         => urlsplit(item.chromeResponse.response.url).scheme
                \in allowedSchemes

\* C21: a requestWillBeSent whose URL scheme is not http or https leaves the
\* in-flight map unchanged and emits nothing, and after every event each pair
\* in the in-flight map and each emitted pair has http(s) URLs only.
C21_OnlyHttpPairs ==
    [][/\ \A id \in ReqIds :
             OtherSchemeRequest(id)
                => requests' = requests /\ emitted' = emitted
       /\ \A id \in ReqIds : requests'[id] # None => HttpOnly(requests'[id])
       /\ \A i \in DOMAIN emitted' :
             emitted'[i].item # None => HttpOnly(emitted'[i].item)]_vars

\* an ftp request has been dropped while another id's pair was emitted and a
\* third request is in flight
C21_Witness ==
    \E id, other \in ReqIds :
        /\ id # other
        /\ chrome[id] = "requested" /\ ~onlyHttp[id] /\ requests[id] = None
        /\ chromeUrl[id] = "ftp://c/"
        /\ \E i \in DOMAIN emitted :
              /\ emitted[i].item # None
              /\ emitted[i].requestId = other
        /\ requests[other] # None

(***************************************************************************)
(* C22                                                                     *)
(***************************************************************************)
\* C22: a pair handed to loadingFailed carries no response, also when a
\* response had been attached before the failure, and a pair handed to
\* loadingFinished (at the end of the request or as a redirect) carries one.
C22_FailedPairHasNoResponse ==
    \A i \in DOMAIN emitted :
        emitted[i].item # None
           => /\ emitted[i].callback = "loadingFailed"
                    => emitted[i].item.chromeResponse = None
              /\ emitted[i].callback = "loadingFinished"
                    => emitted[i].item.chromeResponse # None

(***************************************************************************)
(* C23                                                                     *)
(***************************************************************************)
\* what the callback has to have done with a dialog of type t
Answered(d) ==
    CASE d.type \in {"alert", "confirm", "prompt"}
            -> d.answers = <<FALSE>> /\ d.warnings = 0
      [] d.type = "beforeunload"
            -> d.answers = <<TRUE>> /\ d.warnings = 0
      [] OTHER
            -> d.answers = <<>> /\ d.warnings = 1

\* C23: each dialog of type alert, confirm or prompt is answered exactly once,
\* with handleJavaScriptDialog (accept=false), each beforeunload dialog exactly
\* once with accept=true, and such a dialog is closed in the end; a dialog of
\* another type gets no answer, only a warning is logged.
C23_DialogsAnswered ==
    /\ [](\A k \in DOMAIN dlgHist :
            IF dlgHist[k].handled THEN Answered(dlgHist[k])
            ELSE dlgHist[k].answers = <<>> /\ dlgHist[k].warnings = 0)
    /\ \A t \in DialogTypes \ {"other"} : (dlgOpen = t) ~> (dlgOpen = "")
    /\ [](\A k \in DOMAIN dlgHist :
            (dlgHist[k].type = "other" /\ dlgHist[k].handled)
                => dlgOpen = "other" /\ pageCalls = <<>>)

\* an alert has been cancelled, a beforeunload accepted and a dialog of an
\* unknown type been warned about
C23_Witness ==
    /\ Len(dlgHist) = 3
    /\ dlgHist[1].type = "alert" /\ dlgHist[1].closed
    /\ dlgHist[1].answers = <<FALSE>>
    /\ dlgHist[2].type = "beforeunload" /\ dlgHist[2].closed
    /\ dlgHist[2].answers = <<TRUE>>
    /\ dlgHist[3].type = "other" /\ dlgHist[3].handled
    /\ logged = <<"info", "info", "warning">>

(***************************************************************************)
(* Claims about the WARC writer, checked under SpecWarc                    *)
(***************************************************************************)
\* the pushes made so far, in order
Pushes == SelectSeq(warcCalls, LAMBDA c : c.what = "push")

\* the run is a grab: the first item pushed is the ControllerStart of run
IsGrab == Pushes # <<>> /\ Pushes[1].item.kind = "ControllerStart"

\* every record after the first warcinfo record names the warcinfo record
\* written last before it
WarcinfoIdIsLatest ==
    \A k \in DOMAIN warc.records :
        LET infos == {j \in 1..(k - 1) : warc.records[j].type = "warcinfo"}
        IN  infos # {}
              => warc.records[k].warcinfoId
                    = CHOOSE j \in infos : \A i \in infos : i <= j

\* C24: in the output of a grab the warcinfo record of ControllerStart comes
\* before every other record, flushed log records included, and every record
\* written after a ControllerStart carries as WARC-Warcinfo-ID the id of the
\* warcinfo record written last.
C24_WarcinfoFirst ==
    /\ IsGrab => warc.records[1].type = "warcinfo"
    /\ WarcinfoIdIsLatest

(***************************************************************************)
(* C25                                                                     *)
(***************************************************************************)
\* the calls that pushed a request/response pair
PairPushes ==
    {k \in DOMAIN warcCalls :
        warcCalls[k].what = "push" /\ warcCalls[k].item.kind = "Item"}

\* the records of one type that call c wrote
Written(c, type) ==
    {k \in c.first..c.last : warc.records[k].type = type}

\* call c wrote one request record and directly after it one response record
\* that is concurrent to it, both with the request id of the pair
RequestThenResponse(c) ==
    \E k \in c.first..c.last :
        /\ Written(c, "request") = {k}
        /\ Written(c, "response") = {k + 1}
        /\ warc.records[k + 1].concurrentTo = warc.records[k].id
        /\ warc.records[k].reqId = c.item.id
        /\ warc.records[k + 1].reqId = c.item.id

\* call c wrote one request record with the request id of the pair and no
\* response record
RequestOnly(c) ==
    \E k \in c.first..c.last :
        /\ Written(c, "request") = {k}
        /\ Written(c, "response") = {}
        /\ warc.records[k].reqId = c.item.id

\* C25 as claimed: for every pair pushed one request record is written and,
\* if the pair has a response, directly after it one response record whose
\* WARC-Concurrent-To is the id of the request record; both carry the request
\* id of the pair.
C25_RequestThenResponse ==
    \A k \in PairPushes :
        IF warcCalls[k].item.failed THEN RequestOnly(warcCalls[k])
        ELSE RequestThenResponse(warcCalls[k])

\* C25 as amended: the same for every pair that has not failed; for a failed
\* pair, the one without response, no record is written.
C25_RequestThenResponseUnlessFailed ==
    \A k \in PairPushes :
        IF warcCalls[k].item.failed
        THEN warcCalls[k].last < warcCalls[k].first
        ELSE RequestThenResponse(warcCalls[k])

\* a pair without request body has been written after the log was flushed
\* for the line about it, and a failed pair has been pushed
C25_Witness ==
    \E j, k \in PairPushes :
        /\ warcCalls[j].item.failed
        /\ ~warcCalls[k].item.failed
        /\ warcCalls[k].last = warcCalls[k].first + 2
        /\ warc.records[warcCalls[k].first].type = "resource"

(***************************************************************************)
(* C26                                                                     *)
(***************************************************************************)
\* C26: for a redirect pair the writer never reads Item.body, the property
\* that fetches the body with Network.getResponseBody; the response record
\* of the pair has WARC-Truncated: unspecified and an empty body, and its
\* request record is written all the same, with the request body if there
\* is one.
C26_RedirectBodyNotFetched ==
    \A k \in PairPushes :
        LET c == warcCalls[k]
        IN  (c.item.isRedirect /\ ~c.item.failed)
              => /\ c.item.serial \notin warc.bodyReads
                 /\ \E r \in c.first..c.last :
                       /\ Written(c, "request") = {r}
                       /\ Written(c, "response") = {r + 1}
                       /\ warc.records[r].payload =
                            IF c.item.requestBody = None THEN ""
                            ELSE c.item.requestBody.payload
                       /\ warc.records[r + 1].truncated = "unspecified"
                       /\ warc.records[r + 1].payload = ""

\* a redirect pair with a request body has been written and the body of
\* another pair been read
C26_Witness ==
    \E j, k \in PairPushes :
        /\ warcCalls[k].item.isRedirect
        /\ warcCalls[k].item.requestBody # None
        /\ warcCalls[k].item.requestBody.payload # ""
        /\ warcCalls[k].last > warcCalls[k].first
        /\ warcCalls[j].item.serial \in warc.bodyReads

(***************************************************************************)
(* C27                                                                     *)
(***************************************************************************)
\* the call that wrote record k
WrittenBy(k) ==
    CHOOSE j \in DOMAIN warcCalls :
        warcCalls[j].first <= k /\ k <= warcCalls[j].last

\* the response records written before record k for a pair of resource type
\* Document with URL u
DocumentRecords(u, k) ==
    {j \in 1..(k - 1) :
        /\ warc.records[j].type = "response"
        /\ warc.records[j].uri = u
        /\ warcCalls[WrittenBy(j)].item.resourceType = "Document"}

Shots == SelectSeq(shotOut, LAMBDA e : e.kind = "ScreenshotEvent")

RECURSIVE SumHeights(_)
SumHeights(evs) ==
    IF evs = <<>> THEN 0
    ELSE Head(evs).data.height + SumHeights(Tail(evs))

\* ceil (a / b) for positive b
CeilDiv(a, b) == (a + b - 1) \div b

\* C28: for a content height H >= 1, onfinish yields ceil (H / 16384)
\* ScreenshotEvents with the offsets 0, 16384, 2 * 16384, ...; each band is
\* at most 16384 pixels high and the heights add up to H, so the bands
\* neither overlap nor leave a gap.
C28_BandsCoverPage ==
    (shotPc = "done" /\ contentHeight >= 1)
        => /\ Len(Shots) = CeilDiv(contentHeight, 16384)
           /\ \A i \in DOMAIN Shots :
                 /\ Shots[i].yoff = (i - 1) * 16384
                 /\ Shots[i].data.y = Shots[i].yoff
                 /\ Shots[i].data.height >= 1
                 /\ Shots[i].data.height <= 16384
                 /\ Shots[i].yoff + Shots[i].data.height =
                        IF i < Len(Shots) THEN Shots[i + 1].yoff
                        ELSE contentHeight
           /\ SumHeights(Shots) = contentHeight

\* a page two and a half bands high has been captured in three bands
C28_Witness ==
    /\ shotPc = "done"
    /\ contentHeight = 40960
    /\ Len(Shots) = 3
    /\ Shots[3].data.height = 8192

(***************************************************************************)
(* C29                                                                     *)
(***************************************************************************)
\* the DomSnapshotEvents yielded, in order
Snapshots == SelectSeq(domOut, LAMBDA e : e.kind = "DomSnapshotEvent")

\* the documents of the page: the root and the documents of its frames, at
\* any depth
RECURSIVE DocumentsOf(_)
DocumentsOf(doc) ==
    {doc} \cup UNION {DocumentsOf(doc.children[1].children[i].contentDocument) :
                        i \in DOMAIN doc.children[1].children}

\* C29: onfinish yields one DomSnapshotEvent for each distinct http(s)
\* document of the DOM tree, the root and the documents of nested frames, and
\* none for a document of another scheme; no two of the events carry the same
\* URL.
C29_OneSnapshotPerDocument ==
    domPc = "done"
        => /\ \A d \in DocumentsOf(dom) :
                URL(d.documentURL).scheme \in {"http", "https"}
                    => \E i \in DOMAIN Snapshots :
                          Snapshots[i].url
                             = with_fragment_None(URL(d.documentURL))
           /\ \A i \in DOMAIN Snapshots :
                /\ Snapshots[i].url.scheme \in {"http", "https"}
                /\ \E d \in DocumentsOf(dom) :
                      Snapshots[i].url
                         = with_fragment_None(URL(d.documentURL))
           /\ \A i, j \in DOMAIN Snapshots :
                i # j => Snapshots[i].url # Snapshots[j].url

(***************************************************************************)
(* C30                                                                     *)
(***************************************************************************)
\* C30: after any sequence of enter, exit and arm the event is set exactly
\* when the RefCountEvent has been armed and its count is zero; an arm while
\* the count is positive sets the event only when the last holder leaves.
C30_SetIffArmedAndUnheld ==
    [][/\ event' <=> (armed' /\ count' = 0)
       /\ (armed /\ count > 0) => (event' <=> count' = 0)]_vars

\* armed while two holders were inside, the event was set when the second
\* of them left
C30_Witness ==
    /\ refOps = <<"enter", "enter", "arm", "exit", "exit">>
    /\ event

(***************************************************************************)
(* C31                                                                     *)
(***************************************************************************)
\* AccountingSiteLoader.stats['failed']: one more with each call of
\* loadingFailed
statsFailed(em) ==
    Cardinality({i \in DOMAIN em : em[i].callback = "loadingFailed"})

\* the browser ends the request of an id that is not in the in-flight map,
\* and what is emitted for it, if anything, is emitted for
\* Network.loadingFailed
FailedUnknown(id) ==
    /\ chrome[id] \in {"requested", "responded"}
    /\ chrome'[id] = "closed"
    /\ requests[id] = None
    /\ emitted' # emitted
          => emitted'[Len(emitted')].method = "Network.loadingFailed"

\* C31: Network.loadingFailed for a request id that is not in the in-flight
\* map is a no-op: the loadingFailed callback is not called, and neither the
\* map nor the count of failures changes.
C31_UnknownFailureIsNoOp ==
    [][\A id \in ReqIds :
          FailedUnknown(id)
             => /\ emitted' = emitted
                /\ requests' = requests
                /\ statsFailed(emitted') = statsFailed(emitted)]_vars

(***************************************************************************)
(* C32                                                                     *)
(***************************************************************************)
\* the in-flight map
InFlight == {id \in ReqIds : requests[id] # None}

\* the step handles loadingFinished or loadingFailed of an in-flight id
Ends(id) ==
    /\ requests[id] # None
    /\ chrome[id] # "closed"
    /\ chrome'[id] = "closed"

\* the step hands the pair of the id to loadingFinished or loadingFailed
EmitsPairOf(id) ==
    /\ Len(emitted') = Len(emitted) + 1
    /\ emitted'[Len(emitted')].item # None
    /\ emitted'[Len(emitted')].item.chromeRequest.requestId = id
    /\ emitted'[Len(emitted')].method
            \in {"Network.loadingFinished", "Network.loadingFailed"}

\* C32: the in-flight map holds exactly the ids for which a request with an
\* http(s) URL has been handled and neither loadingFinished nor loadingFailed
\* since; an id leaves the map in the step that emits its pair on finish or
\* failure; and handling loadingFinished of an in-flight id never fails, also
\* when no response was recorded for it.
C32_InFlightMap ==
    [][/\ InFlight' = {id \in ReqIds : sentHttp'[id]}
       /\ \A id \in ReqIds :
            /\ (id \in InFlight /\ id \notin InFlight') => EmitsPairOf(id)
            /\ Ends(id) => raised' = "none"]_vars

(***************************************************************************)
(* C33                                                                     *)
(***************************************************************************)
\* C33: when run has finished, by returning, by NavigateError or by the
\* exception of a handler or hook, none of the three tasks it created, the
\* drain task, the idle task and the timeout task, is still pending.
C33_NoTaskLeftPending ==
    RunEnded
        => /\ handle # "running"
           /\ Stopped(idleProc)
           /\ Stopped(timeoutProc)

(***************************************************************************)
(* C34                                                                     *)
(***************************************************************************)
\* the task is in a hook of behavior b for one of the phases
InHook(T, b, phases) ==
    \E i \in DOMAIN stack[T] :
        /\ stack[T][i].op = "hook"
        /\ stack[T][i].b = b
        /\ stack[T][i].phase \in phases

\* the drain task has called onload of behavior b
OnloadStarted(b) ==
    \E i \in DOMAIN hlog["drain"] :
        /\ hlog["drain"][i].ev = "hook"
        /\ hlog["drain"][i].phase = "load"
        /\ hlog["drain"][i].b = b

\* run leaves the loop around asyncio.wait and calls behavior.stop ()
Stopping == ctlPc = "waiting" /\ ctlPc' = "stop"

\* C34: onstop and onfinish of a behavior are never in progress while an
\* onload of the same behavior, called by the drain task for a
\* FrameNavigated, is in progress; and when an onload of a behavior has been
\* called before run leaves the loop, behavior.stop () runs the onstop hooks.
C34_StopNotDuringLoad ==
    [][/\ \A b \in DOMAIN Behaviors :
            ~(InHook("drain", b, {"load"})'
                /\ InHook("run", b, {"stop", "finish"})')
       /\ \A b \in DOMAIN Behaviors :
            (Stopping /\ OnloadStarted(b))
                => \E i \in DOMAIN stack'["run"] :
                        /\ stack'["run"][i].op = "runon"
                        /\ stack'["run"][i].phase = "stop"]_vars

Balance(j, k) ==
    Cardinality({i \in j..k : tokens[i].type = "StartTag"})
        - Cardinality({i \in j..k : tokens[i].type = "EndTag"})

\* the end tag of the element that token j starts, or past the last token
\* while the element is open
MatchingEnd(j) ==
    LET ends == {k \in j..Len(tokens) : Balance(j, k) = 0}
    IN  IF ends = {} THEN Len(tokens) + 1
        ELSE CHOOSE k \in ends : \A m \in ends : k <= m

\* token i lies in an element whose name is in the tag list
InStripped(i) ==
    \/ tokens[i].type = "EmptyTag" /\ lower(tokens[i].name) \in tags
    \/ \E j \in 1..i :
        /\ tokens[j].type = "StartTag"
        /\ lower(tokens[j].name) \in tags
        /\ i <= MatchingEnd(j)

\* the tokens outside every such element, in their order
Outside == SelectSeq([i \in DOMAIN tokens |-> [i |-> i, t |-> tokens[i]]],
                     LAMBDA x : ~InStripped(x.i))

\* C36: for every token stream the filter yields exactly the tokens outside
\* every element whose lowercased name is in the tag list, in their order:
\* every token after the end tag of a stripped element is yielded, also
\* when the stripped element is a void element or contains one.
C36_YieldsTokensOutside ==
    yielded = [i \in DOMAIN Outside |-> Outside[i].t]

(***************************************************************************)
(* C37                                                                     *)
(***************************************************************************)
\* the fetch tasks that are started and not completed
Unfinished == {t \in DOMAIN fetches : fetches[t].pc # "done"}

\* C37: at every moment of RecursiveController.run the number of fetch tasks
\* started and not yet completed is at most the configured concurrency.
C37_AtMostConcurrencyFetches ==
    Cardinality(Unfinished) <= concurrency

\* two fetches are in progress under concurrency 2, after the seed was
\* fetched
C37_Witness ==
    /\ concurrency = 2
    /\ Cardinality(Unfinished) = 2
    /\ \A t \in Unfinished : fetches[t].pc = "reading"
    /\ Len(fetches) = 3

(***************************************************************************)
(* C38                                                                     *)
(***************************************************************************)
\* C38: without cancellation and errors of a fetch, run returns only when no
\* fetch is running and pending is empty: every URL that passed the policy
\* and was added to pending has been fetched, also one found by a fetch
\* that ends after another fetch of the same round has ended.
C38_ReturnsWhenNothingPending ==
    recPc = "returned"
        => /\ pending = {}
           /\ Unfinished = {}
           /\ \A t \in DOMAIN fetches : fetches[t].entry \in have

(***************************************************************************)
(* C39                                                                     *)
(***************************************************************************)
\* the URL a fetch task was started for, without its fragment
Fetched(t) == with_fragment_None(fetches[t].entry.value)

\* C39: no URL, compared without fragment and whatever the depth, is fetched
\* more than once in a run, in whatever order concurrent fetches report the
\* same link; have contains every URL whose fetch has been started, and
\* pending and have are disjoint.
C39_EachUrlFetchedOnce ==
    /\ \A t, u \in DOMAIN fetches : t # u => Fetched(t) # Fetched(u)
    /\ \A t \in DOMAIN fetches : fetches[t].entry.value \in Values(have)
    /\ Values(pending) \cap Values(have) = {}

(***************************************************************************)
(* C40                                                                     *)
(***************************************************************************)
\* C40: once abort has succeeded on a job that was pending or running, the
\* status of the job is aborted and stays so, it never becomes running or
\* finished, and a command of the job that runs has been terminated, also
\* when the abort came while the job waited for the process limit or while
\* its command was being started.
C40_AbortedStaysAborted ==
    [][\A j \in Jobs :
          /\ status[j] = "aborted" => status'[j] = "aborted"
          /\ (status'[j] = "aborted" /\ process'[j] = "running")
                => terminated'[j]]_vars

====
